---- MODULE Spec2Model ----
(***************************************************************************)
(* Verification model of the vector-magnet control engine.                 *)
(*                                                                         *)
(*   Spec       the orchestrator (DummyMagnetBackend and                   *)
(*              ElectroMagnetBackend), its Ramp Tasks seen as threads, the *)
(*              ObserverThread and the queued on_task_finished signal.     *)
(*   SpecRamp   one CurrentRampingHardwareThread driving one power supply, *)
(*              with stop() arriving at any moment.                        *)
(*   SpecQuery  two threads querying one ITPowerSupplyDriver.              *)
(*   SpecVertices  the vertex sequence of a demagnetization, computed by   *)
(*              either Ramp Task from an initial current.                  *)
(*   SpecDummy  the Ramp Task of the dummy backend on the stored current   *)
(*              of its channel, in numbers.                                *)
(*   SpecChannels  the Ramp Tasks of one dispatch running side by side,    *)
(*              each on the driver or array entry it was given.            *)
(*   SpecDriver one thread calling the operations of a driver, the device   *)
(*              answering, reporting errors or staying silent.             *)
(*   SpecShutdown  __del__ and close_connection of ElectroMagnetBackend    *)
(*              with Ramp Tasks outstanding.                               *)
(*   SpecBackendLive  Spec with the fairness of its threads.               *)
(*   SpecPair   a dummy and a hardware backend given the same calls.       *)
(*   SpecField  set_target_field on a backend, the field on or off.        *)
(*                                                                         *)
(* Units: the orchestrator model keeps setpoint currents as small integers *)
(* and the dummy backend's _actual_currents entry of a channel by its      *)
(* class, "zero" (np.isclose(0, x)) or "nonzero", which is all the control *)
(* flow reads.  The Ramp Task model keeps currents in mA and voltages in   *)
(* units of 10 uV, so that R = 0.62 Ohm is the factor 62.                  *)
(***************************************************************************)
EXTENDS Integers, Sequences, FiniteSets, TLC

(***************************************************************************)
(* Bounds of the model.                                                    *)
(***************************************************************************)
\* Number of ramp dispatches (_ramp_to_new_current_values calls) in a run.
MaxDispatch == 2

(***************************************************************************)
(* Program constants.                                                      *)
(***************************************************************************)
\* ramping_threads has three entries; the dispatch loops over range(3).
NumChannels == 3

Channels == 1..NumChannels
Ops == 1..MaxDispatch

\* CURRENT_TASK and MAGNET_STATE of backend_base.py.
CURRENT_TASK == {"ENABLING", "DISABLING", "DEMAGNETIZING", "SWITCHING", "IDLE"}
MAGNET_STATE == {"ON", "OFF"}

\* The current vectors a caller passes to set_currents.
ZeroVector == [c \in Channels |-> 0]
SetpointInputs == {ZeroVector, [c \in Channels |-> IF c = 1 THEN 2 ELSE IF c = 2 THEN 0 ELSE -1]}

\* Class of a current value as np.isclose(0, value) sees it.
CurrentClass(x) == IF x = 0 THEN "zero" ELSE "nonzero"

VARIABLES
    backend,        \* "dummy" (DummyMagnetBackend) or "hardware" (ElectroMagnetBackend)
    magnet_state,   \* self._magnet_state
    demagnetization_flag,   \* self._demagnetization_flag
    setpoint_currents,      \* self._setpoint_currents
    actual_currents,        \* class of self._actual_currents[c] (dummy backend)
    threads,        \* every Ramp Task object ever created: threads[op][c]
    curOp,          \* the dispatch whose tasks fill self.ramping_threads (0: None entries)
    observers,      \* the ObserverThread of each dispatch
    sigQueue,       \* on_task_finished emissions queued for the main thread
    mainPc,         \* position of the main (GUI / caller) thread
    req,            \* arguments of the dispatch in progress
    task,           \* last value emitted on on_task_change
    field_status,   \* last value emitted on on_field_status_change ("none": never)
    flag_event,     \* last value emitted on on_demagnetization_flag_change (<<>>: never)
    requested,      \* what the caller last asked for: "ON" after enable_field, "OFF" after disable_field
    raised          \* the last backend call ended with an uncaught exception

backendVars == <<backend, magnet_state, demagnetization_flag, setpoint_currents,
                 actual_currents, threads, curOp, observers, sigQueue, mainPc, req,
                 task, field_status, flag_event, requested, raised>>

VARIABLES
    ramp_task,      \* the fields of one CurrentRampingHardwareThread and its position in run()
    psu,            \* the power supply behind ramp_task's driver
    trace           \* what the task last measured and commanded, and where stop() found it

rampVars == <<ramp_task, psu, trace>>

VARIABLES
    qpc,            \* position of each querying thread inside _query / checkError
    sock_in,        \* requests written to the socket the device has not answered yet
    sock_out,       \* responses the device has sent that no thread has read yet
    last,           \* per thread: the request it last wrote and the response it last read
    nq              \* per thread: number of driver calls begun

queryVars == <<qpc, sock_in, sock_out, last, nq>>

VARIABLES
    hw_magnet_state,    \* ElectroMagnetBackend._magnet_state
    hw_threads,         \* ElectroMagnetBackend.ramping_threads, per channel
    hw_sockets,         \* the socket of each power supply: "open" or "closed"
    hw_pc,              \* position of the main thread
    hw_call             \* the method the main thread is in, and whether __del__ called it

shutdownVars == <<hw_magnet_state, hw_threads, hw_sockets, hw_pc, hw_call>>

VARIABLES
    drv,            \* ITPowerSupplyDriver: _connected, the socket, current_lim, voltage_lim
    call            \* the last driver operation: what it sent, what it read, how it ended

driverVars == <<drv, call>>

VARIABLES
    vtx,            \* a demagnetization procedure: its initial current and its vertices
    dummy_task      \* a CurrentRampingThread of the dummy backend and its channel's current

dummyVars == <<vtx, dummy_task>>

VARIABLES
    ch_threads,     \* ramping_threads of one dispatch: what each task was constructed with
    ch_log,         \* which task has read or written which driver or array entry
    ch_events       \* the (value, channel) pairs emitted on on_single_current_change

channelVars == <<ch_threads, ch_log, ch_events>>

VARIABLES
    pair,           \* a DummyMagnetBackend and an ElectroMagnetBackend given the same calls
    fld             \* a backend as set_target_field sees it: setpoints, dispatches, events

compareVars == <<pair, fld>>

vars == <<backendVars, rampVars, queryVars, shutdownVars, driverVars, dummyVars, channelVars,
          compareVars>>

(***************************************************************************)
(* Ramp Task objects (CurrentRampingThread of dummy_backend.py).           *)
(*   st      "none"  no object (the np.empty entry, None)                  *)
(*           "new"   constructed, not yet started                          *)
(*           "run"   started, before the demagnetization test of run()     *)
(*           "demag" inside _demagnetization_procedure                     *)
(*           "ramp"  in the final loop of run()                            *)
(*           "done"  run() has returned                                    *)
(* A task that has returned and was replaced in self.ramping_threads is    *)
(* referenced by nothing; its record is DoneThread.                        *)
(***************************************************************************)
NoThread == [st |-> "none", stop |-> FALSE, flag |-> FALSE, passed |-> FALSE, target |-> 0]
DoneThread == [st |-> "done", stop |-> FALSE, flag |-> FALSE, passed |-> FALSE, target |-> 0]

\* threading.Thread.is_alive(): between start() and the return of run().
is_alive(t) == t.st \in {"run", "demag", "ramp"}

\* CurrentRampingThread.demagnetization_completed().
demagnetization_completed(t) == t.passed

\* The entry self.ramping_threads[c]; the ObserverThread holds the same array.
Slot(c) == IF curOp = 0 THEN NoThread ELSE threads[curOp][c]

NoObserver == [st |-> "none", tag |-> "IDLE", check |-> FALSE, nDemag |-> 0, nDone |-> 0]

\* The dispatch request in progress or last made: the running_task tag and
\* the target vector passed to _ramp_to_new_current_values, the magnet status
\* and the caller's wish when the public call was made, and the dispatch
\* number its tasks received (0: none constructed).
NoReq == [tag |-> "IDLE", target |-> ZeroVector, status |-> "OFF", wanted |-> "OFF", op |-> 0]

\* No Ramp Task model and no query model: the variables of SpecRamp and
\* SpecQuery while another specification runs.
NoVoltage == [kind |-> "none", k |-> 0, to |-> "none", vertex |-> 0, value |-> 0]
RampParked ==
    /\ ramp_task = [pc |-> "none"]
    /\ psu = [output |-> "off", current |-> <<>>, voltage |-> NoVoltage]
    /\ trace = [lastMeas |-> <<>>, lastCurCmd |-> <<>>, stopAt |-> "none",
                vertices_done |-> 0, last_vertex |-> <<>>, polls_after_stop |-> 0,
                intermediate |-> <<>>, at_target |-> <<>>, startup |-> <<>>,
                requested |-> <<>>, finish |-> "none",
                steps |-> <<>>, emitted |-> 0]

QueryParked ==
    /\ qpc = <<>>
    /\ sock_in = <<>>
    /\ sock_out = <<>>
    /\ last = <<>>
    /\ nq = <<>>

ShutdownParked ==
    /\ hw_magnet_state = "OFF"
    /\ hw_threads = <<>>
    /\ hw_sockets = <<>>
    /\ hw_pc = "none"
    /\ hw_call = [method |-> "none", del |-> FALSE]

NoCall == [op |-> "none", arg |-> 0, wrote |-> <<>>, socket_calls |-> 0,
           timed_out |-> FALSE, raised |-> "none", code |-> 0, result |-> "none",
           error_code |-> <<>>, error_msg |-> <<>>, logged |-> FALSE]
DriverParked ==
    /\ drv = [connected |-> FALSE, sock |-> "none", current_lim |-> 0, voltage_lim |-> 0]
    /\ call = NoCall

ChannelsParked ==
    /\ ch_threads = <<>>
    /\ ch_log = {}
    /\ ch_events = {}

CompareParked ==
    /\ pair = [calls |-> 0]
    /\ fld = [calls |-> 0]

DummyParked ==
    /\ vtx = [backend |-> "none", initial_current |-> 0, vertices |-> <<>>]
    /\ dummy_task = [pc |-> "none"]

\* The backend after __init__.
BackendConstructed ==
    /\ magnet_state = "OFF"
    /\ demagnetization_flag = FALSE
    /\ setpoint_currents = ZeroVector
    /\ actual_currents = [c \in Channels |-> "zero"]
    /\ threads = [o \in Ops |-> [c \in Channels |-> NoThread]]
    /\ curOp = 0
    /\ observers = [o \in Ops |-> NoObserver]
    /\ sigQueue = <<>>
    /\ mainPc = "idle"
    /\ req = NoReq
    /\ task = "IDLE"
    /\ field_status = "none"
    /\ flag_event = <<>>
    /\ requested = "OFF"
    /\ raised = FALSE

Init ==
    /\ backend \in {"dummy", "hardware"}
    /\ BackendConstructed
    /\ RampParked
    /\ QueryParked
    /\ ShutdownParked
    /\ DriverParked
    /\ DummyParked
    /\ ChannelsParked
    /\ CompareParked

(***************************************************************************)
(* _ramp_to_new_current_values, first part: the try block that stops and   *)
(* joins the tasks of self.ramping_threads.  On None entries is_alive()    *)
(* raises AttributeError, which the except clause swallows.                *)
(***************************************************************************)
\* thread.stop() on every entry that is alive.
StopRunning(ths) ==
    IF curOp = 0 THEN ths
    ELSE [ths EXCEPT ![curOp] =
            [c \in Channels |-> IF is_alive(ths[curOp][c])
                                THEN [ths[curOp][c] EXCEPT !.stop = TRUE]
                                ELSE ths[curOp][c]]]

\* Variant: the dispatch goes on without waiting for the old tasks.
JoinSkipped == TRUE

\* thread.join() on every entry has returned.
JoinDone == \A c \in Channels : ~is_alive(Slot(c))

\* The caller enters _ramp_to_new_current_values(target, tag).
BeginDispatch(target, tag) ==
    /\ curOp < MaxDispatch
    /\ threads' = StopRunning(threads)
    /\ req' = [tag |-> tag, target |-> target, status |-> magnet_state,
               wanted |-> requested, op |-> 0]
    /\ mainPc' = "join"
    /\ raised' = FALSE

\* A task object whose entry of self.ramping_threads is overwritten.
Replaced(t) == IF t.st = "done" THEN DoneThread ELSE t

\* Dummy backend: after the join, herald the task, construct the three tasks.
DispatchCreate ==
    /\ backend = "dummy"
    /\ mainPc = "join"
    /\ JoinDone
    /\ task' = IF demagnetization_flag THEN "DEMAGNETIZING" ELSE req.tag
    /\ curOp' = curOp + 1
    /\ threads' = [o \in Ops |->
            IF o = curOp + 1
            THEN [c \in Channels |-> [st |-> "new", stop |-> FALSE,
                                      flag |-> demagnetization_flag, passed |-> FALSE,
                                      target |-> req.target[c]]]
            ELSE [c \in Channels |-> Replaced(threads[o][c])]]
    /\ req' = [req EXCEPT !.op = curOp + 1]
    /\ mainPc' = "start"
    /\ UNCHANGED <<backend, magnet_state, demagnetization_flag, setpoint_currents,
                   actual_currents, observers, sigQueue, field_status,
                   flag_event, requested, raised>>

\* Dummy backend: start the three tasks, then construct and start the Observer.
DispatchStart ==
    /\ backend = "dummy"
    /\ mainPc = "start"
    /\ threads' = [threads EXCEPT ![curOp] =
            [c \in Channels |-> [threads[curOp][c] EXCEPT !.st = "run"]]]
    /\ observers' = [observers EXCEPT ![curOp] =
            [st |-> IF demagnetization_flag THEN "demagWait" ELSE "aliveWait",
             tag |-> req.tag, check |-> demagnetization_flag,
             nDemag |-> 0, nDone |-> 0]]
    /\ mainPc' = "idle"
    /\ UNCHANGED <<backend, magnet_state, demagnetization_flag, setpoint_currents,
                   actual_currents, curOp, sigQueue, req, task, field_status,
                   flag_event, requested, raised>>

\* Hardware backend: after the join the dispatch reads self.frontend, an
\* attribute that nothing assigns; the AttributeError is raised outside the
\* try block and leaves _ramp_to_new_current_values and its caller.
DispatchRaise ==
    /\ backend = "hardware"
    /\ mainPc = "join"
    /\ JoinDone
    /\ raised' = TRUE
    /\ mainPc' = "idle"
    /\ UNCHANGED <<backend, magnet_state, demagnetization_flag, setpoint_currents,
                   actual_currents, threads, curOp, observers, sigQueue, req, task,
                   field_status, flag_event, requested>>

(***************************************************************************)
(* The public control surface.                                             *)
(***************************************************************************)
\* Variant: set_currents dispatches whatever the magnet status is.
set_currents_unconditional(values) ==
    /\ mainPc = "idle"
    /\ setpoint_currents' = values
    /\ task' = "SWITCHING"
    /\ BeginDispatch(values, "SWITCHING")
    /\ UNCHANGED <<backend, magnet_state, demagnetization_flag, actual_currents,
                   curOp, observers, sigQueue, field_status, flag_event, requested>>

set_currents(values) ==
    /\ mainPc = "idle"
    /\ setpoint_currents' = values
    /\ IF magnet_state = "ON"
       THEN /\ task' = "SWITCHING"
            /\ BeginDispatch(values, "SWITCHING")
       ELSE /\ raised' = FALSE
            /\ UNCHANGED <<task, threads, req, mainPc>>
    /\ UNCHANGED <<backend, magnet_state, demagnetization_flag, actual_currents,
                   curOp, observers, sigQueue, field_status, flag_event, requested>>

\* Variant: the status is left for the completion signal to change.
enable_field_status_on_completion ==
    /\ mainPc = "idle"
    /\ requested' = "ON"
    /\ BeginDispatch(setpoint_currents, "ENABLING")
    /\ UNCHANGED <<backend, magnet_state, field_status, demagnetization_flag,
                   setpoint_currents, actual_currents, curOp, observers, sigQueue,
                   task, flag_event>>

\* The dummy backend sets and reports ON before it dispatches; the hardware
\* backend does so after the dispatch has returned.
enable_field ==
    /\ mainPc = "idle"
    /\ requested' = "ON"
    /\ BeginDispatch(setpoint_currents, "ENABLING")
    /\ IF backend = "dummy"
       THEN magnet_state' = "ON" /\ field_status' = "ON"
       ELSE UNCHANGED <<magnet_state, field_status>>
    /\ UNCHANGED <<backend, demagnetization_flag, setpoint_currents, actual_currents,
                   curOp, observers, sigQueue, task, flag_event>>

\* Variant: the ramp of disable_field goes to the setpoint, not to zero.
disable_field_to_setpoint ==
    /\ mainPc = "idle"
    /\ requested' = "OFF"
    /\ BeginDispatch(setpoint_currents, "DISABLING")
    /\ IF backend = "dummy"
       THEN magnet_state' = "OFF" /\ field_status' = "OFF"
       ELSE UNCHANGED <<magnet_state, field_status>>
    /\ UNCHANGED <<backend, demagnetization_flag, setpoint_currents, actual_currents,
                   curOp, observers, sigQueue, task, flag_event>>

\* The dummy backend sets and reports OFF before it dispatches; the hardware
\* backend sets OFF after the dispatch has returned.
disable_field ==
    /\ mainPc = "idle"
    /\ requested' = "OFF"
    /\ BeginDispatch(ZeroVector, "DISABLING")
    /\ IF backend = "dummy"
       THEN magnet_state' = "OFF" /\ field_status' = "OFF"
       ELSE UNCHANGED <<magnet_state, field_status>>
    /\ UNCHANGED <<backend, demagnetization_flag, setpoint_currents, actual_currents,
                   curOp, observers, sigQueue, task, flag_event>>

\* Variant: the running tasks read the backend's flag instead of their copy.
set_demagnetization_flag_live(flag) ==
    /\ mainPc = "idle"
    /\ demagnetization_flag' = flag
    /\ flag_event' = <<flag>>
    /\ raised' = FALSE
    /\ threads' = [o \in Ops |-> [c \in Channels |->
            IF is_alive(threads[o][c]) THEN [threads[o][c] EXCEPT !.flag = flag]
            ELSE threads[o][c]]]
    /\ UNCHANGED <<backend, magnet_state, setpoint_currents, actual_currents,
                   curOp, observers, sigQueue, mainPc, req, task, field_status,
                   requested>>

set_demagnetization_flag(flag) ==
    /\ mainPc = "idle"
    /\ demagnetization_flag' = flag
    /\ flag_event' = <<flag>>
    /\ raised' = FALSE
    /\ UNCHANGED <<backend, magnet_state, setpoint_currents, actual_currents, threads,
                   curOp, observers, sigQueue, mainPc, req, task, field_status,
                   requested>>

\* The slot connected to on_task_finished, run by the main thread.
on_task_finished_action ==
    /\ mainPc = "idle"
    /\ sigQueue # <<>>
    /\ LET finished_task == Head(sigQueue).tag IN
         /\ task' = IF finished_task = "DEMAGNETIZING" THEN "ENABLING" ELSE "IDLE"
         /\ field_status' = IF finished_task = "DISABLING" THEN "OFF" ELSE field_status
    /\ sigQueue' = Tail(sigQueue)
    /\ UNCHANGED <<backend, magnet_state, demagnetization_flag, setpoint_currents,
                   actual_currents, threads, curOp, observers, mainPc, req,
                   flag_event, requested, raised>>

(***************************************************************************)
(* CurrentRampingThread.run of the dummy backend, by phases.               *)
(***************************************************************************)
\* Class of the channel's current after some, not all, steps of a ramp from
\* a value of class `from` toward `target`.
PartialClasses(from, target) ==
    IF from = "zero" THEN {CurrentClass(target)}
    ELSE IF target = 0 THEN {"nonzero"}
    ELSE {"zero", "nonzero"}

ThreadUpdate(o, c, t) == threads' = [threads EXCEPT ![o][c] = t]

\* The test at the head of run(): demagnetize first, or go to the final ramp.
ThreadBegin(o, c) ==
    LET t == threads[o][c] IN
    /\ t.st = "run"
    /\ IF t.flag /\ actual_currents[c] # "zero"
       THEN ThreadUpdate(o, c, [t EXCEPT !.st = "demag"])
       ELSE ThreadUpdate(o, c, [t EXCEPT !.st = "ramp", !.passed = TRUE])
    /\ UNCHANGED <<backend, magnet_state, demagnetization_flag, setpoint_currents,
                   actual_currents, curOp, observers, sigQueue, mainPc, req, task,
                   field_status, flag_event, requested, raised>>

\* _demagnetization_procedure: uncancelled it ends on the vertex 0; a stop
\* request cuts its steps short.  run() then sets _demagnetization_passed.
ThreadDemag(o, c) ==
    LET t == threads[o][c] IN
    /\ t.st = "demag"
    /\ ThreadUpdate(o, c, [t EXCEPT !.st = "ramp", !.passed = TRUE])
    /\ \E cls \in (IF t.stop THEN {"zero", "nonzero"} ELSE {"zero"}) :
          actual_currents' = [actual_currents EXCEPT ![c] = cls]
    /\ UNCHANGED <<backend, magnet_state, demagnetization_flag, setpoint_currents,
                   curOp, observers, sigQueue, mainPc, req, task, field_status,
                   flag_event, requested, raised>>

\* The final loop of run(): uncancelled it reaches the target; after a stop
\* request it breaks with none, some or all of its steps applied.
ThreadRamp(o, c) ==
    LET t == threads[o][c] IN
    /\ t.st = "ramp"
    /\ ThreadUpdate(o, c, [t EXCEPT !.st = "done"])
    /\ \E cls \in (IF t.stop
                    THEN {actual_currents[c], CurrentClass(t.target)}
                         \cup PartialClasses(actual_currents[c], t.target)
                    ELSE {CurrentClass(t.target)}) :
          actual_currents' = [actual_currents EXCEPT ![c] = cls]
    /\ UNCHANGED <<backend, magnet_state, demagnetization_flag, setpoint_currents,
                   curOp, observers, sigQueue, mainPc, req, task, field_status,
                   flag_event, requested, raised>>

(***************************************************************************)
(* ObserverThread.run.  A poll that finds its condition false only sleeps. *)
(* is_alive() and demagnetization_completed() of one task object only ever *)
(* change from "alive" to "not alive" and from False to True, so a scan    *)
(* of the three entries is modelled as one step.                           *)
(***************************************************************************)
\* Variant: np.all in place of np.any.
AllDemagnetizing == \A c \in Channels : is_alive(Slot(c)) /\ ~demagnetization_completed(Slot(c))

\* np.any([thread.is_alive() and not thread.demagnetization_completed() ...])
AnyDemagnetizing == \E c \in Channels : is_alive(Slot(c)) /\ ~demagnetization_completed(Slot(c))

\* Variant: only the first subject is looked at.
FirstAlive == is_alive(Slot(1))

\* np.any([thread.is_alive() ...])
AnyAlive == \E c \in Channels : is_alive(Slot(c))

ObserverDemagDone(o) ==
    LET ob == observers[o] IN
    /\ ob.st = "demagWait"
    /\ ~AnyDemagnetizing
    /\ sigQueue' = Append(sigQueue, [tag |-> "DEMAGNETIZING", op |-> o])
    /\ observers' = [observers EXCEPT ![o] = [ob EXCEPT !.st = "aliveWait", !.nDemag = ob.nDemag + 1]]
    /\ UNCHANGED <<backend, magnet_state, demagnetization_flag, setpoint_currents,
                   actual_currents, threads, curOp, mainPc, req, task, field_status,
                   flag_event, requested, raised>>

ObserverTaskDone(o) ==
    LET ob == observers[o] IN
    /\ ob.st = "aliveWait"
    /\ ~AnyAlive
    /\ sigQueue' = Append(sigQueue, [tag |-> ob.tag, op |-> o])
    /\ observers' = [observers EXCEPT ![o] = [ob EXCEPT !.st = "done", !.nDone = ob.nDone + 1]]
    /\ UNCHANGED <<backend, magnet_state, demagnetization_flag, setpoint_currents,
                   actual_currents, threads, curOp, mainPc, req, task, field_status,
                   flag_event, requested, raised>>

\* The steps of Spec leave the Ramp Task model and the query model alone.
BackendOnly == UNCHANGED <<rampVars, queryVars, shutdownVars, driverVars, dummyVars, channelVars, compareVars>>

Next ==
    \/ \E values \in SetpointInputs : set_currents(values) /\ BackendOnly
    \/ enable_field /\ BackendOnly
    \/ disable_field /\ BackendOnly
    \/ \E flag \in BOOLEAN : set_demagnetization_flag(flag) /\ BackendOnly
    \/ DispatchCreate /\ BackendOnly
    \/ DispatchStart /\ BackendOnly
    \/ DispatchRaise /\ BackendOnly
    \/ on_task_finished_action /\ BackendOnly
    \/ \E o \in Ops, c \in Channels : ThreadBegin(o, c) /\ BackendOnly
    \/ \E o \in Ops, c \in Channels : ThreadDemag(o, c) /\ BackendOnly
    \/ \E o \in Ops, c \in Channels : ThreadRamp(o, c) /\ BackendOnly
    \/ \E o \in Ops : ObserverDemagDone(o) /\ BackendOnly
    \/ \E o \in Ops : ObserverTaskDone(o) /\ BackendOnly

Spec == Init /\ [][Next]_vars

(***************************************************************************)
(* Spec with the scheduling of the processes: the main thread goes on with *)
(* a dispatch it has entered and handles the signals queued for it; every  *)
(* started Ramp Task and every Observer is a thread that keeps running.    *)
(* The public calls are the caller's choice and carry no fairness.         *)
(***************************************************************************)
MainThreadStep ==
    (DispatchCreate \/ DispatchStart \/ DispatchRaise \/ on_task_finished_action)
        /\ BackendOnly

RampThreadStep(o, c) ==
    (ThreadBegin(o, c) \/ ThreadDemag(o, c) \/ ThreadRamp(o, c)) /\ BackendOnly

ObserverStep(o) ==
    (ObserverDemagDone(o) \/ ObserverTaskDone(o)) /\ BackendOnly

SpecBackendLive ==
    /\ Init
    /\ [][Next]_vars
    /\ WF_vars(MainThreadStep)
    /\ \A o \in Ops, c \in Channels : WF_vars(RampThreadStep(o, c))
    /\ \A o \in Ops : WF_vars(ObserverStep(o))

(***************************************************************************)
(* Properties of the orchestrator, checked under Spec.                     *)
(***************************************************************************)
\* The tasks constructed for the dispatch request req.
ReqTasksAlive == req.op # 0 /\ \E c \in Channels : is_alive(threads[req.op][c])

\* C1: for every channel at most one Ramp Task is alive at any time.  A task
\* that is alive is the channel's entry of self.ramping_threads: the tasks of
\* an earlier dispatch were stopped and joined before new ones were
\* constructed, and no task is alive while the new ones wait to be started.
C1_OneRampTaskPerChannel ==
    /\ \A o \in Ops, c \in Channels : is_alive(threads[o][c]) => o = curOp
    /\ \A c \in Channels : Cardinality({o \in Ops : is_alive(threads[o][c])}) <= 1
    /\ mainPc = "start" => \A o \in Ops, c \in Channels : ~is_alive(threads[o][c])

\* A dispatch found a running task, asked it to stop and waits in join().
C1_Witness ==
    /\ mainPc = "join"
    /\ curOp >= 1
    /\ \E c \in Channels : is_alive(Slot(c)) /\ Slot(c).stop

\* C3: the Observer of a dispatch emits the completion signal at most once,
\* exactly once by the time it has ended, with the running_task tag of its
\* dispatch, and not while a Ramp Task of that dispatch is alive.
C3_CompletionOnce ==
    \A o \in Ops :
        LET ob == observers[o] IN
        /\ ob.nDone <= 1
        /\ (ob.st = "done") = (ob.nDone = 1)
        /\ (ob.nDone = 1) => \A c \in Channels : ~is_alive(threads[o][c])
        /\ (req.op = o /\ ob.st # "none") => ob.tag = req.tag
        /\ \A i \in DOMAIN sigQueue :
              sigQueue[i].op = o => sigQueue[i].tag \in {"DEMAGNETIZING", ob.tag}
        /\ Cardinality({i \in DOMAIN sigQueue :
              sigQueue[i].op = o /\ sigQueue[i].tag # "DEMAGNETIZING"}) <= ob.nDone

\* The Observer of a set_currents dispatch has emitted its completion signal.
C3_Witness ==
    \E o \in Ops :
        /\ observers[o].nDone = 1
        /\ observers[o].tag = "SWITCHING"
        /\ \E i \in DOMAIN sigQueue : sigQueue[i] = [tag |-> "SWITCHING", op |-> o]

\* C4: an Observer that tracks demagnetization emits the Demagnetizing-done
\* signal at most once, has emitted it before it waits for the tasks to exit
\* and before its completion signal, and not while a Ramp Task of its
\* dispatch is alive without having passed demagnetization; an Observer that
\* does not track demagnetization never emits it.
C4_DemagDoneOnce ==
    \A o \in Ops :
        LET ob == observers[o] IN
        /\ ob.nDemag <= 1
        /\ ~ob.check => ob.nDemag = 0
        /\ (ob.check /\ ob.st \in {"aliveWait", "done"}) => ob.nDemag = 1
        /\ (ob.check /\ ob.st = "demagWait") => (ob.nDemag = 0 /\ ob.nDone = 0)
        /\ (ob.nDemag = 1) =>
              \A c \in Channels : \/ ~is_alive(threads[o][c])
                                 \/ demagnetization_completed(threads[o][c])
        /\ \A i, j \in DOMAIN sigQueue :
              (i < j /\ sigQueue[i].op = o /\ sigQueue[j].op = o)
                  => (sigQueue[i].tag = "DEMAGNETIZING" /\ sigQueue[j].tag = ob.tag)

\* Demagnetizing-done was emitted while a task that has passed its
\* demagnetization is still ramping, the completion signal still to come.
C4_Witness ==
    \E o \in Ops :
        /\ observers[o].check
        /\ observers[o].nDemag = 1
        /\ observers[o].nDone = 0
        /\ \E c \in Channels : threads[o][c].st = "ramp" /\ threads[o][c].flag
        /\ \E c \in Channels : threads[o][c].st = "done"

\* C6 as stated: a disable_field() made while the magnet status is Off is a
\* no-op, so no Ramp Task is ever constructed on its behalf.
C6_DisableWhileOffIsNoOp ==
    (req.tag = "DISABLING" /\ req.status = "OFF") => req.op = 0

\* C6 amended: disable_field() has no test of the magnet status.  Made while
\* Off it leaves the status Off and dispatches as always: it asks the
\* running tasks to stop and joins them, and the dummy backend then
\* constructs one Ramp Task per channel toward 0, starts them and starts an
\* Observer tagged DISABLING.
C6_DisableWhileOffDispatches ==
    [][ /\ (mainPc = "idle" /\ mainPc' = "join"
                /\ req'.tag = "DISABLING" /\ req'.status = "OFF")
            => (magnet_state' = "OFF" /\ threads' = StopRunning(threads))
        /\ (req.tag = "DISABLING" /\ req.status = "OFF"
                /\ mainPc = "join" /\ mainPc' = "start")
            => (/\ JoinDone
                /\ \A c \in Channels : /\ threads'[curOp'][c].st = "new"
                                       /\ threads'[curOp'][c].target = 0)
        /\ (req.tag = "DISABLING" /\ req.status = "OFF"
                /\ mainPc = "start" /\ mainPc' = "idle")
            => (/\ \A c \in Channels : is_alive(threads'[curOp][c])
                /\ observers'[curOp].st # "none"
                /\ observers'[curOp].tag = "DISABLING"
                /\ magnet_state' = "OFF")
      ]_vars

\* Ramp Tasks of a disable_field() made while Off are running.
C6_Witness ==
    /\ req.tag = "DISABLING"
    /\ req.status = "OFF"
    /\ mainPc = "idle"
    /\ ReqTasksAlive
    /\ observers[req.op].tag = "DISABLING"

\* C7: set_currents stores the values it is given; with the magnet status On
\* it reports SWITCHING, asks the running tasks to stop and dispatches toward
\* the stored values; with the status Off it changes no task, no Observer
\* and no reported task.  A SWITCHING dispatch is only ever made while On.
C7_SetCurrents ==
    [][ /\ (mainPc = "idle" /\ mainPc' = "join" /\ req'.tag = "SWITCHING")
            => (/\ magnet_state = "ON"
                /\ setpoint_currents' = req'.target
                /\ task' = "SWITCHING"
                /\ threads' = StopRunning(threads))
        /\ (setpoint_currents' # setpoint_currents)
            => IF magnet_state = "ON"
               THEN /\ mainPc' = "join"
                    /\ req'.tag = "SWITCHING"
                    /\ req'.target = setpoint_currents'
               ELSE UNCHANGED <<threads, curOp, observers, sigQueue, mainPc, task,
                                magnet_state>>
        /\ (req'.tag = "SWITCHING") => (req'.status = "ON")
      ]_vars

\* Ramp Tasks of a set_currents call made while On are running toward the
\* stored setpoint.
C7_Witness ==
    /\ req.tag = "SWITCHING"
    /\ ReqTasksAlive
    /\ setpoint_currents = req.target
    /\ setpoint_currents # ZeroVector
    /\ \A c \in Channels : threads[req.op][c].target = setpoint_currents[c]

\* C8 as stated: while the Ramp Tasks of an enable_field() made while Off
\* are running, the magnet status is still Off.
C8_StatusOffWhileEnabling ==
    (req.tag = "ENABLING" /\ req.status = "OFF" /\ ReqTasksAlive)
        => magnet_state = "OFF"

\* C8 amended: once the Ramp Tasks of an enable_field() exist the magnet
\* status is On (the dummy backend sets it when called), also while they
\* run; when the tasks are constructed the reported task is ENABLING, or
\* DEMAGNETIZING if the flag is set; the completion signal tagged ENABLING
\* makes the reported task IDLE and changes no status.
C8_StatusOnWhileEnabling ==
    [][ /\ (req'.tag = "ENABLING" /\ req'.op # 0) => magnet_state' = "ON"
        /\ (req.tag = "ENABLING" /\ mainPc = "join" /\ mainPc' = "start")
            => task' = (IF demagnetization_flag THEN "DEMAGNETIZING" ELSE "ENABLING")
        /\ (sigQueue # <<>> /\ sigQueue' = Tail(sigQueue)
                /\ Head(sigQueue).tag = "ENABLING")
            => (task' = "IDLE" /\ UNCHANGED <<magnet_state, field_status>>)
      ]_vars

\* The Ramp Tasks of an enable_field() made while Off run with status On.
C8_Witness ==
    /\ req.tag = "ENABLING"
    /\ req.status = "OFF"
    /\ ReqTasksAlive
    /\ magnet_state = "ON"
    /\ task = "ENABLING"

\* C9 as stated, for the hardware backend: once a disable_field() made
\* after enable_field() has returned, Ramp Tasks toward 0 have been started
\* on every channel and an Observer tagged DISABLING watches them.
C9_DisableRampsToZero ==
    (backend = "hardware" /\ req.tag = "DISABLING" /\ req.wanted = "ON"
        /\ mainPc = "idle")
        => (/\ req.op # 0
            /\ \A c \in Channels : threads[req.op][c].st \notin {"none", "new"}
            /\ observers[req.op].tag = "DISABLING")

\* C10: a set_demagnetization_flag call that changes the flag changes
\* nothing else but the reported flag; a running Ramp Task keeps the flag it
\* was constructed with; the tasks and the Observer of a dispatch get the
\* flag as it is when they are constructed.
C10_FlagFrame ==
    [][ /\ (demagnetization_flag' # demagnetization_flag)
            => (/\ flag_event' = <<demagnetization_flag'>>
                /\ UNCHANGED <<magnet_state, setpoint_currents, actual_currents,
                               threads, curOp, observers, sigQueue, mainPc, req,
                               task, field_status>>)
        /\ \A o \in Ops, c \in Channels :
              (threads[o][c].st \in {"new", "run", "demag", "ramp"}
                  /\ threads'[o][c].st # "none")
                  => (threads'[o][c].st = "done" \/ threads'[o][c].flag = threads[o][c].flag)
        /\ (mainPc = "join" /\ mainPc' = "start")
            => \A c \in Channels : threads'[curOp'][c].flag = demagnetization_flag
        /\ (mainPc = "start" /\ mainPc' = "idle")
            => observers'[curOp].check = demagnetization_flag
      ]_vars

\* A running Ramp Task holds a flag that differs from the backend's flag.
C10_Witness ==
    \E c \in Channels : is_alive(Slot(c)) /\ Slot(c).flag # demagnetization_flag

\* C32 as stated: the task a dispatch reports when it heralds its tasks is
\* DEMAGNETIZING only if the demagnetization flag is set and the present
\* current of at least one channel is not zero; otherwise it is the
\* operation's own task.
C32_DemagnetizingOnlyWhenNeeded ==
    [][ (mainPc = "join" /\ mainPc' = "start")
            => IF /\ demagnetization_flag
                  /\ \E c \in Channels : actual_currents[c] # "zero"
               THEN task' \in {"DEMAGNETIZING", req.tag}
               ELSE task' = req.tag
      ]_vars

\* C33 as stated: when the Demagnetizing-done signal of a disable_field or
\* set_currents dispatch is handled, the task reported is that operation's
\* own task, DISABLING or SWITCHING; the reported task then changes only by
\* a new request or by the completion signal, which makes it IDLE.
C33_OwnTaskAfterDemagnetization ==
    [][ sigQueue # <<>> /\ sigQueue' = Tail(sigQueue)
            => LET sig == Head(sigQueue)
                   own == observers[sig.op].tag
               IN  own \in {"DISABLING", "SWITCHING"}
                      => task' = IF sig.tag = "DEMAGNETIZING" THEN own ELSE "IDLE"
      ]_vars

\* C34 as stated: when a completion signal makes the backend report IDLE
\* (and OFF for a DISABLING completion) no Ramp Task is alive and the signal
\* is that of the most recently dispatched operation; OFF is not reported
\* while the magnet status is ON.
C34_IdleOnlyForLatestOperation ==
    [][ (sigQueue # <<>> /\ sigQueue' = Tail(sigQueue) /\ task' = "IDLE")
            => /\ \A o \in Ops, c \in Channels : ~is_alive(threads[o][c])
               /\ Head(sigQueue).op = curOp
               /\ Head(sigQueue).tag = "DISABLING" => magnet_state = "OFF"
      ]_vars

\* C35 as stated: once a ramp dispatch of the hardware backend has returned,
\* one Ramp Task has been started for every configured channel and one
\* Observer has been started over those tasks.
C35_HardwareDispatchStartsAll ==
    (backend = "hardware" /\ req.tag # "IDLE" /\ mainPc = "idle")
        => /\ req.op # 0
           /\ \A c \in Channels : threads[req.op][c].st \in {"run", "demag", "ramp", "done"}
           /\ observers[req.op].st # "none"
           /\ Cardinality({o \in Ops : observers[o].st # "none"}) = curOp

\* The operation of the dispatch request req is over: its Ramp Tasks have
\* exited, its Observer has emitted the completion signal, the signal has
\* been handled and the backend reports Idle.
OperationCompleted ==
    /\ req.op # 0
    /\ \A c \in Channels : ~is_alive(threads[req.op][c])
    /\ observers[req.op].st = "done"
    /\ sigQueue = <<>>
    /\ task = "IDLE"

\* C40 as stated: once a dispatch request has been made and the call has
\* returned, the operation eventually completes (its Ramp Tasks exit, its
\* Observer emits the completion signal, the backend reports Idle) unless a
\* further request is dispatched first.
C40_DispatchedOperationCompletes ==
    (req.tag # "IDLE" /\ mainPc = "idle") ~> (OperationCompleted \/ mainPc = "join")

(***************************************************************************)
(* One hardware Ramp Task (CurrentRampingHardwareThread) and its power     *)
(* supply.  Every driver call of run() is a step; stop() may come between  *)
(* any two of them.                                                        *)
(***************************************************************************)
\* number_steps of the task (ramp_num_steps of the backend).
NumSteps == 2

\* device.current_lim and device.voltage_lim, as connect() read them from
\* the supply: 5 A and 2 V.
CurrentLim == 5000
VoltageLim == 200000

\* R_coils_overestimate, 0.62 Ohm, and R_coils_underestimate, 0.5 Ohm.
R_coils_overestimate == 62
R_coils_underestimate == 50
\* The intermediate voltage is 0 unless target_current > 0.02 A.
IntermediateThreshold == 20
\* Smallest current and voltage the task commands: 0.002 A, 0.001 V.
MinCurrent == 2
MinVoltage == 100
\* atol of the np.isclose test that skips the demagnetization: 0.01 A.
DemagTolerance == 10
\* The current limit _demagnetization_procedure commands first: 5.01 A.
DemagCurrent == 5010
\* len(vertices): nine damped amplitudes and the final zero.
NumVertices == 10
\* The compliance poll ends after five stable samples, stable meaning
\* closer than 0.002 A to the one before.
RepeatLimit == 5
StableDelta == 2

\* target_current values a dispatch passes to the constructor, and the
\* values device.get_current() answers with.
RequestedCurrents == {0, 2, 1500, -3000, -4000, 6000}
MeasCurrents == {-3000, 0, 1500, 3000}
\* The values device.get_voltage() answers with: -1 V, 0 V, 1.5 V.
MeasVoltages == {-100000, 0, 150000}

Abs(x) == IF x < 0 THEN -x ELSE x
Sign(x) == IF x < 0 THEN -1 ELSE IF x > 0 THEN 1 ELSE 0

\* np.exp(-0.7 * reference_points) for reference_points 0.2, 1, 2, ..., 8,
\* in units of 1/FactorScale.
FactorScale == 10000
factors == <<8694, 4966, 2466, 1225, 608, 302, 150, 74, 37>>

\* Variant: the vertices keep the sign of the measured current.
DemagVertex_same_sign(a, i) ==
    IF i > Len(factors) THEN 0 ELSE a * factors[i]

\* vertices[i - 1] of _demagnetization_procedure for the measured current a
\* (mA), in units of mA/FactorScale:
\*   a * factors * (-1)**np.arange(1, len(factors)+1), then 0 appended.
DemagVertex(a, i) ==
    IF i > Len(factors) THEN 0
    ELSE IF i % 2 = 1 THEN -(a * factors[i]) ELSE a * factors[i]

\* The hardware task passes a vertex, a number of amperes, to
\* _linarly_ramp_voltage as a number of volts: x mA/FactorScale are
\* x / 100 units of 10 uV.
VertexVoltage(a, i) ==
    LET x == DemagVertex(a, i)
    IN  IF x < 0 THEN -((-x) \div 100) ELSE x \div 100

\* _check_values: clamp to the limits, then replace a trivial target.
check_values(current, voltage) ==
    LET c1 == IF current > CurrentLim THEN CurrentLim ELSE current
        v1 == IF Abs(voltage) > VoltageLim THEN VoltageLim ELSE voltage
    IN  IF c1 < MinCurrent \/ Abs(v1) < MinVoltage
        THEN [current |-> MinCurrent, voltage |-> 0]
        ELSE [current |-> c1, voltage |-> v1]

\* __init__ of the task; run() has been entered by start().
NewRampTask(target, flag, signal) ==
    LET checked == check_values(Abs(target),
                                Sign(target) * R_coils_overestimate * Abs(target))
    IN  [pc |-> "clear",
         stop_event |-> FALSE,
         target_current |-> checked.current,
         target_voltage |-> checked.voltage,
         demagnetization_flag |-> flag,
         demagnetization_passed |-> FALSE,
         signal |-> signal,
         initial_current |-> 0,
         meas_current_queue |-> <<0, 0>>,
         repeat_count |-> 0,
         vertex |-> 0,
         demag_amplitude |-> 0,
         initial_voltage |-> 0,
         step |-> 0,
         ramp_to |-> "none",
         ret |-> "none"]

\* ITPowerSupplyDriver.set_current: a value above current_lim is replaced
\* by current_lim.  The result is the value written to the supply.
set_current(value) == IF value <= CurrentLim THEN value ELSE CurrentLim

\* ITPowerSupplyDriver.set_voltage, likewise with voltage_lim.
set_voltage(value) == IF value <= VoltageLim THEN value ELSE VoltageLim

\* intermediate_voltage of _ensure_voltage_compliance.
IntermediateVoltage(tc, tv) ==
    IF tc > IntermediateThreshold THEN Sign(tv) * R_coils_underestimate * tc ELSE 0

\* The target_voltage argument of the _linarly_ramp_voltage call in progress.
RampTarget(t) ==
    IF t.ramp_to = "vertex" THEN VertexVoltage(t.demag_amplitude, t.vertex)
    ELSE IF t.ramp_to = "intermediate"
    THEN IntermediateVoltage(t.target_current, t.target_voltage)
    ELSE t.target_voltage

\* Variant: the steps are taken from 0 V instead of the measured voltage.
StepVoltage_from_zero(v0, target, k, n) == (k * target) \div n

\* initial_voltage + (i+1)*step_size for step k = i+1 of n, rounded down to
\* the unit.
StepVoltage(v0, target, k, n) == v0 + ((k * (target - v0)) \div n)


MaxPollsCounted == 2

\* The bookkeeping of a measurement m and of a current command cmd.
Measured(m) == [trace EXCEPT !.lastMeas = <<m>>]
Commanded(cmd) == [trace EXCEPT !.lastCurCmd = <<cmd>>]

RampInit ==
    /\ backend = "hardware"
    /\ BackendConstructed
    /\ QueryParked
    /\ ShutdownParked
    /\ DriverParked
    /\ DummyParked
    /\ ChannelsParked
    /\ CompareParked
    /\ \E target \in RequestedCurrents, flag \in BOOLEAN, signal \in BOOLEAN :
          /\ ramp_task = NewRampTask(target, flag, signal)
          /\ trace = [lastMeas |-> <<>>, lastCurCmd |-> <<>>, stopAt |-> "none",
                      vertices_done |-> 0, last_vertex |-> <<>>, polls_after_stop |-> 0,
                      intermediate |-> <<>>, at_target |-> <<>>, startup |-> <<>>,
                      requested |-> <<target>>, finish |-> "none",
                      steps |-> <<>>, emitted |-> 0]
    /\ \E out \in {"on", "off"} :
          psu = [output |-> out, current |-> <<>>, voltage |-> NoVoltage]

\* stop(): sets the event, whatever the task is doing, also after run() has
\* returned.  Nothing is sent to the supply.
stop ==
    /\ ramp_task.pc # "none"
    /\ ~ramp_task.stop_event
    /\ ramp_task' = [ramp_task EXCEPT !.stop_event = TRUE]
    /\ trace' = [trace EXCEPT !.stopAt = ramp_task.pc]
    /\ UNCHANGED psu

\* run(): clrOutputProt, then the output-state test.  OutputState is
\* imported from the driver module, which does not define it, and
\* get_output_state answers 'on' or 'off': with the output off the branch
\* may or may not be taken, with the output on it is not.
run_clear ==
    /\ ramp_task.pc = "clear"
    /\ \E taken \in BOOLEAN :
          IF psu.output = "off" /\ taken
          THEN /\ psu' = [psu EXCEPT !.voltage = [NoVoltage EXCEPT !.kind = "zero"],
                                     !.output = "on"]
               /\ trace' = [trace EXCEPT !.startup =
                               <<[output_was |-> psu.output,
                                  sent |-> <<"clrOutputProt", "set_voltage(0)",
                                             "enable_output">>]>>]
          ELSE /\ psu' = psu
               /\ trace' = [trace EXCEPT !.startup =
                               <<[output_was |-> psu.output,
                                  sent |-> <<"clrOutputProt">>]>>]
    /\ ramp_task' = [ramp_task EXCEPT !.pc = "measure"]

\* The values the first get_current() of run() answers with: those of
\* MeasCurrents and one at the edge of the tolerance.
InitialCurrents == MeasCurrents \cup {DemagTolerance}

\* np.isclose(0, m, atol=0.01): |m| <= atol + rtol * |m| with rtol = 1e-5,
\* which for whole mA is |m| <= DemagTolerance.
isclose_zero(m) == Abs(m) <= DemagTolerance

\* Variant: run() demagnetizes whenever the flag is set.
run_measure_flag_only ==
    /\ ramp_task.pc = "measure"
    /\ \E m \in InitialCurrents :
          /\ ramp_task' = [ramp_task EXCEPT
                 !.initial_current = m,
                 !.pc = IF ramp_task.demagnetization_flag
                        THEN "demag" ELSE "compliance"]
          /\ trace' = Measured(m)
    /\ UNCHANGED psu

\* run(): initial_current = get_current(), and the demagnetization test.
run_measure ==
    /\ ramp_task.pc = "measure"
    /\ \E m \in InitialCurrents :
          /\ ramp_task' = [ramp_task EXCEPT
                 !.initial_current = m,
                 !.pc = IF ramp_task.demagnetization_flag /\ ~isclose_zero(m)
                        THEN "demag" ELSE "compliance"]
          /\ trace' = Measured(m)
    /\ UNCHANGED psu

\* _demagnetization_procedure, up to the vertex loop: set_current(5.01) and
\* the measurement the vertices are computed from.
demagnetization_begin ==
    /\ ramp_task.pc = "demag"
    /\ \E m \in MeasCurrents :
          /\ trace' = [trace EXCEPT !.lastCurCmd = <<set_current(DemagCurrent)>>,
                                    !.lastMeas = <<m>>]
          /\ ramp_task' = [ramp_task EXCEPT !.pc = "vertices", !.vertex = 1,
                                            !.demag_amplitude = m]
    /\ psu' = [psu EXCEPT !.current = <<set_current(DemagCurrent)>>]

\* Variant: the loop runs over the nine decaying vertices only.
demagnetization_vertex_without_zero ==
    /\ ramp_task.pc = "vertices"
    /\ ramp_task' =
          IF ramp_task.vertex > Len(factors) \/ ramp_task.stop_event
          THEN [ramp_task EXCEPT !.pc = "compliance", !.vertex = 0,
                                 !.demag_amplitude = 0,
                                 !.demagnetization_passed = TRUE]
          ELSE [ramp_task EXCEPT !.pc = "rampInit", !.ramp_to = "vertex",
                                 !.ret = "vertexSleep"]
    /\ UNCHANGED <<psu, trace>>

\* Head of the vertex loop: leave after the last vertex or when the stop
\* event is set, and set _demagnetization_passed either way; otherwise ramp
\* to the next vertex.
demagnetization_vertex ==
    /\ ramp_task.pc = "vertices"
    /\ ramp_task' =
          IF ramp_task.vertex > NumVertices \/ ramp_task.stop_event
          THEN [ramp_task EXCEPT !.pc = "compliance", !.vertex = 0,
                                 !.demag_amplitude = 0,
                                 !.demagnetization_passed = TRUE]
          ELSE [ramp_task EXCEPT !.pc = "rampInit", !.ramp_to = "vertex",
                                 !.ret = "vertexSleep"]
    /\ UNCHANGED <<psu, trace>>

\* sleep(0.1) after a vertex.
demagnetization_sleep ==
    /\ ramp_task.pc = "vertexSleep"
    /\ ramp_task' = [ramp_task EXCEPT !.pc = "vertices", !.vertex = @ + 1]
    /\ UNCHANGED <<psu, trace>>

\* _linarly_ramp_voltage before its loop: set_voltage(get_voltage()).
linarly_ramp_voltage_begin ==
    /\ ramp_task.pc = "rampInit"
    /\ \E v \in MeasVoltages :
          /\ psu' = [psu EXCEPT !.voltage = [NoVoltage EXCEPT !.kind = "measured",
                                                              !.value = set_voltage(v)]]
          /\ ramp_task' = [ramp_task EXCEPT !.pc = "rampLoop", !.step = 0,
                                            !.initial_voltage = v]
    /\ UNCHANGED trace

\* One pass of the loop of _linarly_ramp_voltage: return after number_steps
\* steps; with the stop event set send set_current(get_current()) and
\* return; otherwise command step i+1 and, with a signal, emit a
\* measurement.
linarly_ramp_voltage_step ==
    /\ ramp_task.pc = "rampLoop"
    /\ IF ramp_task.step = NumSteps
       THEN /\ ramp_task' = [ramp_task EXCEPT !.pc = ramp_task.ret, !.step = 0,
                                              !.initial_voltage = 0,
                                              !.ramp_to = "none", !.ret = "none"]
            /\ trace' = IF ramp_task.ramp_to = "vertex"
                        THEN [trace EXCEPT !.vertices_done = @ + 1,
                                           !.last_vertex = <<RampTarget(ramp_task)>>,
                                           !.steps = <<>>, !.emitted = 0]
                        ELSE IF ramp_task.ramp_to = "intermediate"
                        THEN [trace EXCEPT !.intermediate = <<RampTarget(ramp_task)>>,
                                           !.steps = <<>>, !.emitted = 0]
                        ELSE [trace EXCEPT !.steps = <<>>, !.emitted = 0]
            /\ UNCHANGED psu
       ELSE IF ramp_task.stop_event
       THEN /\ \E m \in MeasCurrents :
                  /\ trace' = [trace EXCEPT !.lastMeas = <<m>>,
                                            !.lastCurCmd = <<set_current(m)>>,
                                            !.steps = <<>>, !.emitted = 0]
                  /\ psu' = [psu EXCEPT !.current = <<set_current(m)>>]
            /\ ramp_task' = [ramp_task EXCEPT !.pc = ramp_task.ret, !.step = 0,
                                              !.initial_voltage = 0,
                                              !.ramp_to = "none", !.ret = "none"]
       ELSE LET sent == set_voltage(StepVoltage(ramp_task.initial_voltage,
                                                RampTarget(ramp_task),
                                                ramp_task.step + 1, NumSteps))
            IN  /\ psu' = [psu EXCEPT !.voltage = [kind |-> "step",
                                                   k |-> ramp_task.step + 1,
                                                   to |-> ramp_task.ramp_to,
                                                   vertex |-> ramp_task.vertex,
                                                   value |-> sent]]
                /\ ramp_task' = [ramp_task EXCEPT !.step = @ + 1]
                /\ IF ramp_task.signal
                   THEN \E m \in MeasCurrents :
                           trace' = [Measured(m) EXCEPT
                                        !.steps = Append(@, sent),
                                        !.emitted = @ + 1]
                   ELSE trace' = [trace EXCEPT !.steps = Append(@, sent)]

\* _ensure_voltage_compliance, first part: the intermediate ramp when the
\* target is below the measured current.
ensure_voltage_compliance ==
    /\ ramp_task.pc = "compliance"
    /\ ramp_task' =
          IF ramp_task.target_current < Abs(ramp_task.initial_current)
          THEN [ramp_task EXCEPT !.pc = "rampInit", !.ramp_to = "intermediate",
                                 !.ret = "pollInit"]
          ELSE [ramp_task EXCEPT !.pc = "pollInit"]
    /\ UNCHANGED <<psu, trace>>

\* _ensure_voltage_compliance, second part: skipped with the stop event
\* set, otherwise the first measurement of the poll.
compliance_poll_begin ==
    /\ ramp_task.pc = "pollInit"
    /\ IF ramp_task.stop_event
       THEN /\ ramp_task' = [ramp_task EXCEPT !.pc = "final"]
            /\ UNCHANGED trace
       ELSE \E m \in MeasCurrents :
               /\ ramp_task' = [ramp_task EXCEPT !.pc = "poll",
                                                 !.meas_current_queue = <<m, 0>>,
                                                 !.repeat_count = 0]
               /\ trace' = Measured(m)
    /\ UNCHANGED psu

\* The poll: while target_current <= |measured| and fewer than five stable
\* samples, measure again.  The stop event is not looked at.  The passes
\* made with the event set are counted, up to MaxPollsCounted.
compliance_poll ==
    /\ ramp_task.pc = "poll"
    /\ IF /\ ramp_task.target_current <= Abs(ramp_task.meas_current_queue[1])
          /\ ramp_task.repeat_count < RepeatLimit
       THEN \E m \in MeasCurrents :
               /\ ramp_task' = [ramp_task EXCEPT
                      !.meas_current_queue = <<m, ramp_task.meas_current_queue[1]>>,
                      !.repeat_count =
                          IF Abs(m - ramp_task.meas_current_queue[1]) < StableDelta
                          THEN @ + 1 ELSE 0]
               /\ trace' = [trace EXCEPT
                      !.lastMeas = <<m>>,
                      !.polls_after_stop =
                          IF ramp_task.stop_event /\ @ < MaxPollsCounted THEN @ + 1 ELSE @]
       ELSE /\ ramp_task' = [ramp_task EXCEPT !.pc = "final",
                                              !.meas_current_queue = <<0, 0>>,
                                              !.repeat_count = 0]
            /\ UNCHANGED trace
    /\ UNCHANGED psu

\* The end of run() for a task that has not been stopped:
\* set_current(target_current), then disable_output when disable holds,
\* else the ramp to target_voltage.
finish_run(disable) ==
    /\ trace' = [trace EXCEPT
                    !.lastCurCmd = <<set_current(ramp_task.target_current)>>,
                    !.at_target = <<[cancelled |-> ramp_task.stop_event,
                                     last_meas |-> trace.lastMeas,
                                     intermediate |-> trace.intermediate]>>,
                    !.finish = IF disable THEN "disable_output" ELSE "ramp"]
    /\ IF disable
       THEN /\ psu' = [psu EXCEPT
                          !.current = <<set_current(ramp_task.target_current)>>,
                          !.output = "off"]
            /\ ramp_task' = [ramp_task EXCEPT !.pc = "done"]
       ELSE /\ psu' = [psu EXCEPT
                          !.current = <<set_current(ramp_task.target_current)>>]
            /\ ramp_task' = [ramp_task EXCEPT !.pc = "rampInit",
                                              !.ramp_to = "target",
                                              !.ret = "done"]

\* Variant: the task ramps to the target voltage whatever the target is.
run_final_always_ramp ==
    /\ ramp_task.pc = "final"
    /\ IF ramp_task.stop_event
       THEN /\ ramp_task' = [ramp_task EXCEPT !.pc = "done"]
            /\ UNCHANGED <<psu, trace>>
       ELSE finish_run(FALSE)

\* The end of run(): with the stop event set nothing more; otherwise
\* set_current(target_current), then disable_output for a trivial target or
\* the ramp to target_voltage.
run_final ==
    /\ ramp_task.pc = "final"
    /\ IF ramp_task.stop_event
       THEN /\ ramp_task' = [ramp_task EXCEPT !.pc = "done"]
            /\ UNCHANGED <<psu, trace>>
       ELSE finish_run(\/ ramp_task.target_current <= MinCurrent
                       \/ Abs(ramp_task.target_voltage) < MinVoltage)

\* The steps of SpecRamp leave the orchestrator and the query model alone.
RampOnly == UNCHANGED <<backendVars, queryVars, shutdownVars, driverVars, dummyVars, channelVars, compareVars>>

RampNext ==
    \/ stop /\ RampOnly
    \/ run_clear /\ RampOnly
    \/ run_measure /\ RampOnly
    \/ demagnetization_begin /\ RampOnly
    \/ demagnetization_vertex /\ RampOnly
    \/ demagnetization_sleep /\ RampOnly
    \/ linarly_ramp_voltage_begin /\ RampOnly
    \/ linarly_ramp_voltage_step /\ RampOnly
    \/ ensure_voltage_compliance /\ RampOnly
    \/ compliance_poll_begin /\ RampOnly
    \/ compliance_poll /\ RampOnly
    \/ run_final /\ RampOnly

SpecRamp == RampInit /\ [][RampNext]_vars

\* The task has sent set_current(target_current) at the end of run().
TargetSet == ramp_task.pc = "done" \/ ramp_task.ramp_to = "target"

\* C19: with the demagnetization flag set and a measured current that is not
\* zero within the tolerance of run(), a Ramp Task that has not been stopped
\* has ramped to every vertex in full, the last of them the zero vertex,
\* when it sets the current limit to the target and at every step of the
\* ramp toward the target.
C19_DemagBeforeTarget ==
    (/\ ramp_task.demagnetization_flag
     /\ Abs(ramp_task.initial_current) > DemagTolerance
     /\ ~ramp_task.stop_event
     /\ TargetSet)
        => /\ trace.vertices_done = NumVertices
           /\ trace.last_vertex = <<0>>
           /\ ramp_task.demagnetization_passed

C19_Witness ==
    /\ ramp_task.demagnetization_flag
    /\ Abs(ramp_task.initial_current) > DemagTolerance
    /\ ~ramp_task.stop_event
    /\ psu.voltage.kind = "step"
    /\ psu.voltage.to = "target"
    /\ psu.voltage.k = 1
    /\ trace.vertices_done = NumVertices

\* The steps of the task itself; stop() is the caller's.
RampTaskStep ==
    \/ run_clear
    \/ run_measure
    \/ demagnetization_begin
    \/ demagnetization_vertex
    \/ demagnetization_sleep
    \/ linarly_ramp_voltage_begin
    \/ linarly_ramp_voltage_step
    \/ ensure_voltage_compliance
    \/ compliance_poll_begin
    \/ compliance_poll
    \/ run_final

\* The thread of a started task is scheduled again and again: a task that
\* can take a step eventually takes one.  Nothing is assumed of what the
\* supply measures.
SpecRampLive == RampInit /\ [][RampNext]_vars /\ WF_vars(RampTaskStep /\ RampOnly)

\* C24 as stated: once stop() has been requested the hardware Ramp Task
\* returns from run(), whatever the supply measures during the poll.
C24_StoppedTaskTerminates == ramp_task.stop_event ~> (ramp_task.pc = "done")

\* The clamped target before _check_values replaces a trivial one.
ClampedTarget ==
    LET r == trace.requested[1]
        v == Sign(r) * R_coils_overestimate * Abs(r)
    IN  [current |-> IF Abs(r) > CurrentLim THEN CurrentLim ELSE Abs(r),
         voltage |-> IF Abs(v) > VoltageLim THEN VoltageLim ELSE v]

\* The task has returned from run() and stop() was never called.
ReturnedUnstopped == ramp_task.pc = "done" /\ trace.stopAt = "none"

\* The last voltage command is the last step of the ramp to target_voltage.
RampedToTarget ==
    /\ psu.voltage.kind = "step"
    /\ psu.voltage.to = "target"
    /\ psu.voltage.k = NumSteps
    /\ psu.voltage.value = set_voltage(ramp_task.target_voltage)

\* C27 as stated: a task that was not cancelled ends with disable_output and
\* no ramp to the target voltage when the clamped target current is below
\* 2 mA or the clamped |target voltage| is below 1 mV, and otherwise with
\* the ramp to the target voltage and no disable_output.
C27_TrivialBelowMinimum ==
    ReturnedUnstopped
        => IF \/ ClampedTarget.current < MinCurrent
              \/ Abs(ClampedTarget.voltage) < MinVoltage
           THEN trace.finish = "disable_output" /\ psu.voltage.to # "target"
           ELSE trace.finish = "ramp" /\ RampedToTarget

\* C27 as the code has it: the same with the output disabled for a clamped
\* target current at or below 2 mA.
C27_TrivialAtOrBelowMinimum ==
    ReturnedUnstopped
        => IF \/ ClampedTarget.current <= MinCurrent
              \/ Abs(ClampedTarget.voltage) < MinVoltage
           THEN /\ trace.finish = "disable_output"
                /\ psu.voltage.to # "target"
                /\ psu.output = "off"
           ELSE trace.finish = "ramp" /\ RampedToTarget

C27_Witness ==
    /\ ReturnedUnstopped
    /\ trace.requested = <<2>>
    /\ trace.finish = "disable_output"
    /\ psu.output = "off"

\* C28 as stated: after construction the target current is at most the
\* soft current limit (or is the 2 mA minimum), |target voltage| is at most
\* the soft voltage limit, and the target voltage is 0 or has the sign of
\* the requested current.
C28_ConstructedWithinLimits ==
    trace.requested # <<>>
        => /\ \/ ramp_task.target_current <= CurrentLim
              \/ ramp_task.target_current = MinCurrent
           /\ Abs(ramp_task.target_voltage) <= VoltageLim
           /\ \/ ramp_task.target_voltage = 0
              \/ Sign(ramp_task.target_voltage) = Sign(trace.requested[1])

C30_CompletedOnlyAfterZeroVertex ==
    ramp_task.demagnetization_passed
        => /\ trace.vertices_done = NumVertices
           /\ trace.last_vertex = <<0>>

\* The task is in, or has been through, _demagnetization_procedure.
DemagEntered ==
    \/ ramp_task.pc \in {"demag", "vertices", "vertexSleep"}
    \/ ramp_task.ramp_to = "vertex"
    \/ ramp_task.demagnetization_passed

\* C31: the demagnetization procedure is entered if and only if the flag of
\* the task is set and the current measured at the start of run() is not
\* zero within the tolerance; otherwise the task goes from the measurement
\* to the compliance step, and no vertex is ever commanded.
C31_DemagIffFlagAndCurrent ==
    LET wanted == /\ ramp_task.demagnetization_flag
                  /\ Abs(ramp_task.initial_current) > DemagTolerance
    IN  /\ DemagEntered => wanted
        /\ (wanted /\ ramp_task.pc \notin {"clear", "measure"}) => DemagEntered
        /\ (~wanted /\ ramp_task.pc # "none")
              => /\ trace.vertices_done = 0
                 /\ trace.last_vertex = <<>>
                 /\ psu.voltage.to # "vertex"
                 /\ ~ramp_task.demagnetization_passed

C31_Witness ==
    /\ ramp_task.demagnetization_flag
    /\ ramp_task.initial_current = DemagTolerance
    /\ ramp_task.pc = "rampLoop"
    /\ ramp_task.ramp_to = "intermediate"
    /\ trace.vertices_done = 0

\* C26 as stated: before its first measurement the task has sent the
\* protection clear first; with the output off it has then commanded voltage
\* 0 and after that enabled the output; with the output on it has sent
\* neither of the two.
C26_StartupOrder ==
    trace.lastMeas # <<>>
        => /\ trace.startup # <<>>
           /\ trace.startup[1].sent[1] = "clrOutputProt"
           /\ trace.startup[1].output_was = "off"
                 => trace.startup[1].sent
                      = <<"clrOutputProt", "set_voltage(0)", "enable_output">>
           /\ trace.startup[1].output_was = "on"
                 => trace.startup[1].sent = <<"clrOutputProt">>

\* C25 as stated: when the task sets the current limit to the target it has
\* not been cancelled and the last measured current is, in magnitude, at or
\* below the target; and with a target below the initially measured
\* magnitude a ramp to R_under x target, to within the 1 mV the task takes
\* for zero, has been completed before.
C25_TargetSetInVoltageCompliance ==
    trace.at_target # <<>>
        => LET h == trace.at_target[1] IN
           /\ ~h.cancelled
           /\ h.last_meas # <<>>
           /\ Abs(h.last_meas[1]) <= ramp_task.target_current
           /\ ramp_task.target_current < Abs(ramp_task.initial_current)
                 => /\ h.intermediate # <<>>
                    /\ Abs(Abs(h.intermediate[1])
                              - (R_coils_underestimate * ramp_task.target_current))
                          <= MinVoltage

\* C23 as stated: the stop event is looked at once per pass of every loop
\* of the hardware Ramp Task, so no loop makes more than the pass in
\* progress once the event is set; the linear ramp and the vertex loop test
\* the event at the head of each pass, which leaves the compliance poll.
C23_StopCheckedEveryIteration == trace.polls_after_stop <= 1

\* C12 as stated: every current and every voltage a Ramp Task has commanded
\* has a magnitude of at most the soft limit of the channel.
C12_CommandsWithinSoftLimits ==
    /\ psu.current # <<>> => Abs(psu.current[1]) <= CurrentLim
    /\ Abs(psu.voltage.value) <= VoltageLim

\* stop() found the task inside run().
StoppedWhileRunning == trace.stopAt \notin {"none", "done"}

\* C2 as stated: when a hardware Ramp Task that was asked to stop before it
\* finished has exited, the last current-limit command it sent is the most
\* recently measured current.
C2_StopPinsCurrentLimit ==
    (ramp_task.pc = "done" /\ StoppedWhileRunning)
        => (/\ trace.lastCurCmd # <<>>
            /\ trace.lastCurCmd = trace.lastMeas)

(***************************************************************************)
(* Two threads using one ITPowerSupplyDriver: a Ramp Task and the status   *)
(* poll of get_currents, each calling get_current(), which is              *)
(* _query('measure:current?') followed by checkError's                     *)
(* _query('system:error?').  The supply answers the requests in the order  *)
(* it gets them; a read takes the oldest unread response of the socket.    *)
(***************************************************************************)
\* Number of get_current() calls of a thread.
MaxQueries == 2

Clients == {"ramp_task", "get_currents"}

NoMessage == [by |-> "none", cmd |-> "none", n |-> 0]

QueryInit ==
    /\ backend = "hardware"
    /\ BackendConstructed
    /\ RampParked
    /\ ShutdownParked
    /\ DriverParked
    /\ DummyParked
    /\ ChannelsParked
    /\ CompareParked
    /\ qpc = [t \in Clients |-> "idle"]
    /\ sock_in = <<>>
    /\ sock_out = <<>>
    /\ last = [t \in Clients |-> [sent |-> NoMessage, got |-> NoMessage]]
    /\ nq = [t \in Clients |-> 0]

\* self._write(cmd, check_error=False) in _query: sendall.
query_write(t, at, cmd, then) ==
    /\ qpc[t] = at
    /\ LET msg == [by |-> t, cmd |-> cmd, n |-> nq'[t]]
       IN  /\ sock_in' = Append(sock_in, msg)
           /\ last' = [last EXCEPT ![t] = [sent |-> msg, got |-> NoMessage]]
    /\ qpc' = [qpc EXCEPT ![t] = then]
    /\ UNCHANGED sock_out

\* get_current() is called: the write of 'measure:current?'.
get_current_write(t) ==
    /\ nq[t] < MaxQueries
    /\ nq' = [nq EXCEPT ![t] = @ + 1]
    /\ query_write(t, "idle", "measure", "read")

\* checkError(): the write of 'system:error?'.
checkError_write(t) ==
    /\ nq' = nq
    /\ query_write(t, "check", "error", "readError")

\* The supply answers its oldest request.
device_answer ==
    /\ sock_in # <<>>
    /\ sock_out' = Append(sock_out, Head(sock_in))
    /\ sock_in' = Tail(sock_in)
    /\ UNCHANGED <<qpc, last, nq>>

\* What a thread does with the text it read: float() of an error response
\* and the split(',') unpacking of a measurement raise ValueError.
AfterRead(at, msg) ==
    IF at = "read"
    THEN IF msg.cmd = "measure" THEN "check" ELSE "raised"
    ELSE IF msg.cmd = "error" THEN "idle" ELSE "raised"

\* self._read(check_error=False) in _query, after sleep(0.1): recv.
query_read(t) ==
    /\ qpc[t] \in {"read", "readError"}
    /\ sock_out # <<>>
    /\ last' = [last EXCEPT ![t].got = Head(sock_out)]
    /\ sock_out' = Tail(sock_out)
    /\ qpc' = [qpc EXCEPT ![t] = AfterRead(qpc[t], Head(sock_out))]
    /\ UNCHANGED <<sock_in, nq>>

\* recv runs into socket.timeout: _read returns '', which neither float()
\* nor the unpacking accepts.
query_read_timeout(t) ==
    /\ qpc[t] \in {"read", "readError"}
    /\ sock_out = <<>>
    /\ qpc' = [qpc EXCEPT ![t] = "raised"]
    /\ UNCHANGED <<sock_in, sock_out, last, nq>>

\* The steps of SpecQuery leave the orchestrator and the Ramp Task model alone.
QueryOnly == UNCHANGED <<backendVars, rampVars, shutdownVars, driverVars, dummyVars, channelVars, compareVars>>

QueryNext ==
    \/ \E t \in Clients : get_current_write(t) /\ QueryOnly
    \/ \E t \in Clients : checkError_write(t) /\ QueryOnly
    \/ device_answer /\ QueryOnly
    \/ \E t \in Clients : query_read(t) /\ QueryOnly
    \/ \E t \in Clients : query_read_timeout(t) /\ QueryOnly

SpecQuery == QueryInit /\ [][QueryNext]_vars

\* C5 as stated: the write of a query and the read of its response are an
\* atomic pair; a thread that has read a response has read the response to
\* the request it wrote last, never the response to another thread's request.
C5_QueryAtomicPair ==
    \A t \in Clients :
        last[t].got # NoMessage => last[t].got = last[t].sent

(***************************************************************************)
(* Shutdown of the hardware backend: __del__ and close_connection, with    *)
(* enable_field and disable_field before it.  A Ramp Task is seen by what  *)
(* the backend sees of it: alive or not, stop requested or not.  The       *)
(* dispatch is taken past the on_task_change emission of lines 211-215,    *)
(* which raises as long as nothing has assigned self.frontend: it is the   *)
(* only way for the hardware backend to have a Ramp Task outstanding.      *)
(***************************************************************************)
NoHwThread == [st |-> "none", stop |-> FALSE]
NewHwThread == [st |-> "run", stop |-> FALSE]

hw_alive(c) == hw_threads[c].st = "run"

ShutdownInit ==
    /\ backend = "hardware"
    /\ BackendConstructed
    /\ RampParked
    /\ QueryParked
    /\ DriverParked
    /\ DummyParked
    /\ ChannelsParked
    /\ CompareParked
    /\ hw_magnet_state = "OFF"
    /\ hw_threads = [c \in Channels |-> NoHwThread]
    /\ hw_sockets = [c \in Channels |-> "open"]
    /\ hw_pc = "idle"
    /\ hw_call = [method |-> "none", del |-> FALSE]

\* _ramp_to_new_current_values up to the join: stop() on every alive entry.
hw_dispatch_begin(method, del) ==
    /\ hw_threads' = [c \in Channels |->
          IF hw_alive(c) THEN [hw_threads[c] EXCEPT !.stop = TRUE] ELSE hw_threads[c]]
    /\ hw_call' = [method |-> method, del |-> del]
    /\ hw_pc' = "dispatch_join"

\* enable_field() and disable_field() called by the user.
hw_enable_field ==
    /\ hw_pc = "idle"
    /\ hw_dispatch_begin("enable_field", FALSE)
    /\ UNCHANGED <<hw_magnet_state, hw_sockets>>

hw_disable_field ==
    /\ hw_pc = "idle"
    /\ hw_dispatch_begin("disable_field", FALSE)
    /\ UNCHANGED <<hw_magnet_state, hw_sockets>>

\* set_currents() called by the user: a dispatch if the status is On.
hw_set_currents ==
    /\ hw_pc = "idle"
    /\ hw_magnet_state = "ON"
    /\ hw_dispatch_begin("set_currents", FALSE)
    /\ UNCHANGED <<hw_magnet_state, hw_sockets>>

\* The joins have returned: new tasks are constructed and started, the
\* dispatch returns and the caller sets the magnet status.
hw_dispatch_finish ==
    /\ hw_pc = "dispatch_join"
    /\ \A c \in Channels : ~hw_alive(c)
    /\ hw_threads' = [c \in Channels |-> NewHwThread]
    /\ hw_magnet_state' = IF hw_call.method = "enable_field" THEN "ON"
                          ELSE IF hw_call.method = "disable_field" THEN "OFF"
                          ELSE hw_magnet_state
    /\ hw_pc' = IF hw_call.del THEN "del_join" ELSE "idle"
    /\ hw_call' = [hw_call EXCEPT !.method = "none"]
    /\ UNCHANGED hw_sockets

\* A Ramp Task returns from run(), stopped or not.
hw_task_exit(c) ==
    /\ hw_alive(c)
    /\ hw_threads' = [hw_threads EXCEPT ![c] = [st |-> "done", stop |-> FALSE]]
    /\ UNCHANGED <<hw_magnet_state, hw_sockets, hw_pc, hw_call>>

\* __del__: with the status On, disable_field() and then join; with the
\* status Off, straight to close_connection.
hw_del ==
    /\ hw_pc = "idle"
    /\ IF hw_magnet_state = "ON"
       THEN hw_dispatch_begin("disable_field", TRUE)
       ELSE /\ hw_pc' = "close"
            /\ hw_call' = [method |-> "close_connection", del |-> TRUE]
            /\ UNCHANGED hw_threads
    /\ UNCHANGED <<hw_magnet_state, hw_sockets>>

\* __del__: the join loop after disable_field has returned.
hw_del_join ==
    /\ hw_pc = "del_join"
    /\ \A c \in Channels : ~hw_alive(c)
    /\ hw_pc' = "close"
    /\ hw_call' = [method |-> "close_connection", del |-> TRUE]
    /\ UNCHANGED <<hw_magnet_state, hw_threads, hw_sockets>>

\* close_connection: the next channel is closed.
hw_close_connection ==
    /\ hw_pc = "close"
    /\ LET c == CHOOSE n \in Channels :
                   hw_sockets[n] = "open" /\ \A k \in Channels : k < n => hw_sockets[k] = "closed"
       IN  /\ hw_sockets' = [hw_sockets EXCEPT ![c] = "closed"]
           /\ hw_pc' = IF c = NumChannels THEN "closed" ELSE "close"
    /\ UNCHANGED <<hw_magnet_state, hw_threads, hw_call>>

\* The steps of SpecShutdown leave the other models alone.
ShutdownOnly == UNCHANGED <<backendVars, rampVars, queryVars, driverVars, dummyVars, channelVars, compareVars>>

ShutdownNext ==
    \/ hw_enable_field /\ ShutdownOnly
    \/ hw_disable_field /\ ShutdownOnly
    \/ hw_set_currents /\ ShutdownOnly
    \/ hw_dispatch_finish /\ ShutdownOnly
    \/ \E c \in Channels : hw_task_exit(c) /\ ShutdownOnly
    \/ hw_del /\ ShutdownOnly
    \/ hw_del_join /\ ShutdownOnly
    \/ hw_close_connection /\ ShutdownOnly

SpecShutdown == ShutdownInit /\ [][ShutdownNext]_vars

Milli == 100
NumLimitQueries == 4
CurrentArgs == {-6000, 0, 1500, 5010}
VoltageArgs == {-250000, 12340, 250000}
ErrorCodes == {0, 224, 120, 130, 140, 170, -101, -102, -150, -200, -350, 999}
DriverClasses == {"ITPowerSupplyDriver", "IT6432Connection"}

\* The message the device sends with a code.
ErrorMessage(c) ==
    IF c = 0 THEN "No error" ELSE IF c = 120 THEN "Parameter overflow" ELSE "Device message"

\* What a read of the answer to 'system:error?' can give: nothing before
\* the timeout, or "<code>,<message>".
Responses ==
    {[timeout |-> TRUE, code |-> 0, msg |-> ""]}
        \cup {[timeout |-> FALSE, code |-> c, msg |-> ErrorMessage(c)] : c \in ErrorCodes}

\* '{value:.3f}' on a voltage: the nearest whole millivolt.
FormatMilli(v) ==
    IF v >= 0 THEN ((v + (Milli \div 2)) \div Milli) * Milli
              ELSE -(((-v + (Milli \div 2)) \div Milli) * Milli)

\* The branch of set_current / set_voltage: the value that is formatted
\* into the command.
soft_limit_unchecked(value, lim) == value

soft_limit(value, lim) == IF value <= lim THEN value ELSE lim

\* Variant: every code gives the generic error.
ErrorFactory_generic(cls, code) == "GenericError"

\* _ErrorFactory of either class: the exception class built for a code.
ErrorFactory(cls, code) ==
    CASE code = 120 -> "ParameterOverflow"
      [] code = 130 -> "WrongUnitsForParam"
      [] code = 140 /\ cls = "ITPowerSupplyDriver" -> "ParamTypeError"
      [] code = 170 -> "InvalidCommand"
      [] code = 224 /\ cls = "ITPowerSupplyDriver" -> "FrontPanelTimeout"
      [] code = -101 -> "InvalidCharacter"
      [] code = -102 -> "SyntaxErrorSCPI"
      [] code = -150 -> "StringDataError"
      [] code = -200 -> "ExecutionError"
      [] code = -350 -> "ErrorQueueOverrun"
      [] OTHER -> "GenericError"

\* checkError of either class on the answer r: the exception it raises,
\* "none" when it returns.  After a timeout the answer is '' and unpacking
\* ''.split(',') raises ValueError.
checkError(cls, r) ==
    IF r.timeout THEN "ValueError"
    ELSE IF cls = "ITPowerSupplyDriver"
         THEN IF r.code # 0 /\ r.code # 224 THEN ErrorFactory(cls, r.code) ELSE "none"
         ELSE IF r.code # 0 THEN ErrorFactory(cls, r.code) ELSE "none"

\* ErrorBase.__init__ keeps the code; GenericError.__init__ keeps the
\* message as well.  kind is what the operation raised on the answer r.
CarriedCode(kind, r) ==
    IF kind \in {"none", "ValueError", "OSError"} THEN <<>> ELSE <<r.code>>
CarriedMsg(kind, r) == IF kind = "GenericError" THEN <<r.msg>> ELSE <<>>

Cmd(c, v) == [cmd |-> c, value |-> v]
ErrQuery == Cmd("system:error?", 0)
LimitQueries == <<"current:maxset?", "voltage:maxset?", "current:minset?", "voltage:minset?">>
WriteOps == {"set_current", "set_voltage", "enable_output", "disable_output", "_write"}
QueryOps == {"get_current", "get_voltage", "get_output_state", "_query"}

DriverInit ==
    /\ backend = "hardware"
    /\ BackendConstructed
    /\ RampParked
    /\ QueryParked
    /\ ShutdownParked
    /\ DummyParked
    /\ ChannelsParked
    /\ CompareParked
    /\ drv = [connected |-> FALSE, sock |-> "unconnected", current_lim |-> 0, voltage_lim |-> 0]
    /\ call = NoCall

\* sendall on a socket that is not connected raises OSError, which _write
\* does not catch.
SendFails(op, arg) ==
    /\ drv.sock \in {"unconnected", "closed"}
    /\ call' = [NoCall EXCEPT !.op = op, !.arg = arg, !.socket_calls = 1,
                              !.raised = "OSError"]
    /\ UNCHANGED drv

\* What recv does on a connection that is broken: it raises
\* ConnectionResetError, or nothing arrives and it times out.
BrokenReads == {"reset", "timeout"}

\* The connection breaks (reset or aborted by the peer) between two calls.
connection_lost ==
    /\ drv.sock = "connected"
    /\ drv' = [drv EXCEPT !.sock = "broken"]
    /\ call' = [NoCall EXCEPT !.op = "connection_lost"]

\* _write / _query on a broken connection.  sendall raises a
\* ConnectionError, which _write catches and logs.  Whatever reads next
\* (the read of _query, the 'system:error?' query of checkError) calls
\* recv: ConnectionResetError is not caught by _read, and after a timeout
\* '' goes to split(',') or to float(), which raise ValueError.
BrokenRun(op, arg, reads, convert) ==
    /\ drv.sock = "broken"
    /\ \E outcome \in BrokenReads :
          call' = [NoCall EXCEPT
                      !.op = op, !.arg = arg, !.logged = TRUE,
                      !.socket_calls = IF reads = 0 THEN 1 ELSE 3,
                      !.timed_out = (reads # 0 /\ outcome = "timeout"),
                      !.raised = IF reads = 0 THEN "none"
                                 ELSE IF outcome = "reset" THEN "ConnectionResetError"
                                 ELSE IF reads = 1 /\ convert # "float" THEN "none"
                                 ELSE "ValueError",
                      !.result = IF reads = 1 /\ outcome = "timeout" /\ convert # "float"
                                 THEN (IF convert = "onoff" THEN "off" ELSE "empty")
                                 ELSE "none"]
    /\ UNCHANGED drv

\* connect(): sock.connect, _connected = True, then getMaxMinOutput; every
\* exception is caught.  k limit queries are issued; ok says that all of
\* them and the float() conversions succeeded.
connect ==
    /\ drv.sock = "unconnected"
    /\ \/ /\ call' = [NoCall EXCEPT !.op = "connect", !.socket_calls = 1, !.result = "failed"]
          /\ UNCHANGED drv
       \/ \E k \in 1..NumLimitQueries, ok \in BOOLEAN :
             /\ ok => k = NumLimitQueries
             /\ drv' = [connected |-> TRUE, sock |-> "connected",
                        current_lim |-> IF ok THEN CurrentLim ELSE drv.current_lim,
                        voltage_lim |-> IF ok THEN VoltageLim ELSE drv.voltage_lim]
             /\ call' = [NoCall EXCEPT
                           !.op = "connect",
                           !.wrote = [i \in 1..(2 * k) |->
                                         IF i % 2 = 1 THEN Cmd(LimitQueries[(i + 1) \div 2], 0)
                                                      ELSE ErrQuery],
                           !.socket_calls = 1 + (4 * k),
                           !.result = IF ok THEN "completed" ELSE "failed"]

\* _write(cmd, check_error): the command, then checkError when asked.
WriteChecked(op, arg, cmd, check) ==
    \/ SendFails(op, arg)
    \/ BrokenRun(op, arg, IF check THEN 2 ELSE 0, "none")
    \/ /\ drv.sock = "connected"
       /\ \E r \in Responses :
             LET err == IF check THEN checkError("ITPowerSupplyDriver", r) ELSE "none"
             IN  /\ ~check => r.code = 0 /\ ~r.timeout
                 /\ call' = [NoCall EXCEPT
                               !.op = op, !.arg = arg,
                               !.wrote = IF check THEN <<cmd, ErrQuery>> ELSE <<cmd>>,
                               !.socket_calls = IF check THEN 3 ELSE 1,
                               !.raised = err,
                               !.code = r.code,
                               !.error_code = CarriedCode(err, r),
                               !.error_msg = CarriedMsg(err, r)]
       /\ UNCHANGED drv

\* _write(cmd) with the default, the error check on.
WriteRun(op, arg, cmd) == WriteChecked(op, arg, cmd, TRUE)

\* _write(cmd, check_error) called as such.
drv_write(check) == WriteChecked("_write", 0, Cmd("system:clear", 0), check)

drv_set_current(value) ==
    WriteRun("set_current", value, Cmd("current", soft_limit(value, drv.current_lim)))

drv_set_voltage(value) ==
    WriteRun("set_voltage", value,
             Cmd("voltage", FormatMilli(soft_limit(value, drv.voltage_lim))))

enable_output == WriteRun("enable_output", 0, Cmd("output", 1))

disable_output == WriteRun("disable_output", 0, Cmd("output", 0))

\* _query(cmd, check_error): write, read, then checkError when asked.
\* silent says that the read of the answer timed out and gave ''.  convert
\* is what the caller does with the answer: float() raises ValueError on
\* '', the comparison with "1" of get_output_state gives 'off'.
QueryRun(op, cmd, check, convert) ==
    \/ SendFails(op, 0)
    \/ BrokenRun(op, 0, IF check THEN 2 ELSE 1, convert)
    \/ /\ drv.sock = "connected"
       /\ \E silent \in BOOLEAN, r \in Responses :
             LET err == IF check THEN checkError("ITPowerSupplyDriver", r) ELSE "none"
             IN  /\ ~check => r.code = 0 /\ ~r.timeout
                 /\ call' = [logged |-> FALSE, op |-> op, arg |-> 0,
                             wrote |-> IF check THEN <<cmd, ErrQuery>> ELSE <<cmd>>,
                             socket_calls |-> IF check THEN 4 ELSE 2,
                             timed_out |-> silent,
                             raised |-> IF err # "none" THEN err
                                        ELSE IF silent /\ convert = "float" THEN "ValueError"
                                        ELSE "none",
                             code |-> r.code,
                             result |-> IF err # "none" THEN "none"
                                        ELSE IF ~silent THEN "value"
                                        ELSE IF convert = "float" THEN "none"
                                        ELSE IF convert = "onoff" THEN "off"
                                        ELSE "empty",
                             error_code |-> CarriedCode(err, r),
                             error_msg |-> CarriedMsg(err, r)]
       /\ UNCHANGED drv

get_current == QueryRun("get_current", Cmd("measure:current?", 0), TRUE, "float")

get_voltage == QueryRun("get_voltage", Cmd("measure:voltage?", 0), TRUE, "float")

get_output_state == QueryRun("get_output_state", Cmd("output?", 0), TRUE, "onoff")

drv_query(check) == QueryRun("_query", Cmd("*IDN?", 0), check, "none")

\* checkError() called on its own, on a connected socket of either class.
drv_checkError(cls) ==
    /\ drv.sock = "connected"
    /\ \E r \in Responses :
          call' = [logged |-> FALSE,
                   op |-> cls, arg |-> 0, wrote |-> <<ErrQuery>>, socket_calls |-> 2,
                   timed_out |-> r.timeout, raised |-> checkError(cls, r),
                   code |-> r.code, result |-> "none",
                   error_code |-> CarriedCode(checkError(cls, r), r),
                   error_msg |-> CarriedMsg(checkError(cls, r), r)]
    /\ UNCHANGED drv

\* close(): the socket is closed; _connected is left as it was.
close ==
    /\ drv.sock # "closed"
    /\ drv' = [drv EXCEPT !.sock = "closed"]
    /\ call' = [NoCall EXCEPT !.op = "close", !.socket_calls = 1]

\* The steps of SpecDriver leave the other models alone.
DriverOnly == UNCHANGED <<backendVars, rampVars, queryVars, shutdownVars, dummyVars, channelVars, compareVars>>

DriverNext ==
    \/ connect /\ DriverOnly
    \/ \E value \in CurrentArgs : drv_set_current(value) /\ DriverOnly
    \/ \E value \in VoltageArgs : drv_set_voltage(value) /\ DriverOnly
    \/ enable_output /\ DriverOnly
    \/ disable_output /\ DriverOnly
    \/ get_current /\ DriverOnly
    \/ get_voltage /\ DriverOnly
    \/ get_output_state /\ DriverOnly
    \/ \E check \in BOOLEAN : drv_query(check) /\ DriverOnly
    \/ \E check \in BOOLEAN : drv_write(check) /\ DriverOnly
    \/ connection_lost /\ DriverOnly
    \/ \E cls \in DriverClasses : drv_checkError(cls) /\ DriverOnly
    \/ close /\ DriverOnly

SpecDriver == DriverInit /\ [][DriverNext]_vars

\* The soft limit that applies to the last call.
CallLimit == IF call.op = "set_current" THEN drv.current_lim ELSE drv.voltage_lim

\* The formatting of the value in the command of the last call.
CallFormat(v) == IF call.op = "set_current" THEN v ELSE FormatMilli(v)

\* The value of the first command the last call put on the wire.
CallValue == call.wrote[1].value

C14_Benign0And224 ==
    (call.op \in DriverClasses /\ ~call.timed_out)
        => (call.raised = "none" <=> call.code \in {0, 224})

\* C15 as stated: when the read of a query's answer times out, with the
\* error check on or off and the device reporting no error, the operation
\* returns an empty result and raises nothing to its caller.
C15_TimeoutReturnsEmpty ==
    (call.op \in QueryOps /\ call.timed_out /\ call.code = 0)
        => (call.raised = "none" /\ call.result = "empty")

\* C16 as stated: connect() raises nothing to its caller, and the driver is
\* Connected afterwards exactly when connect() completed, the four limit
\* queries included.
C16_ConnectedOnlyWhenCompleted ==
    call.op = "connect"
        => (call.raised = "none" /\ (drv.connected <=> call.result = "completed"))

\* C17 as stated: an operation called on a Disconnected driver makes no
\* call on the socket, neither a write nor a read.
C17_DisconnectedShortCircuits ==
    (~drv.connected /\ call.op \in (WriteOps \cup QueryOps))
        => call.socket_calls = 0

\* The codes of the table of ITPowerSupplyDriver._ErrorFactory.
TableCodes == {120, 130, 140, 170, 224, -101, -102, -150, -200, -350}

\* C22: when checkError of ITPowerSupplyDriver reads "<code>,<message>" with
\* a code other than 0 and 224, it raises the kind the table gives for the
\* code, carrying the code (120 gives ParameterOverflow with code 120,
\* -200 gives ExecutionError), and for a code outside the table the generic
\* error carrying the code and the message as sent.
C22_TypedErrors ==
    (call.op = "ITPowerSupplyDriver" /\ ~call.timed_out /\ call.code \notin {0, 224})
        => /\ call.error_code = <<call.code>>
           /\ call.code = 120 => call.raised = "ParameterOverflow"
           /\ call.code = -200 => call.raised = "ExecutionError"
           /\ call.code = -101 => call.raised = "InvalidCharacter"
           /\ call.code \in TableCodes =>
                 (call.raised \notin {"GenericError", "none"} /\ call.error_msg = <<>>)
           /\ call.code \notin TableCodes =>
                 (call.raised = "GenericError" /\ call.error_msg = <<ErrorMessage(call.code)>>)

C22_Witness ==
    /\ call.op = "ITPowerSupplyDriver"
    /\ call.code = 120
    /\ call.raised = "ParameterOverflow"
    /\ call.error_code = <<120>>

\* C38 as stated: a send on a broken connection is logged and returns to
\* the caller without raising, with the error check on as with it off.
C38_BrokenSendReturns ==
    (drv.sock = "broken" /\ call.op \in WriteOps)
        => (call.logged /\ call.raised = "none")

(***************************************************************************)
(* The vertex sequence.  Both Ramp Tasks compute                           *)
(*   vertices = initial * factors * (-1)**np.arange(1, len(factors)+1)     *)
(* and append 0; the hardware task takes initial from get_current(), the   *)
(* dummy task from the stored current of its channel.  Currents in mA,     *)
(* vertices in mA/FactorScale.                                             *)
(***************************************************************************)
MaxAmplitude == 30
Amplitudes == (-MaxAmplitude..MaxAmplitude) \cup {-5000, 3000}

VerticesInit ==
    /\ backend \in {"dummy", "hardware"}
    /\ BackendConstructed
    /\ RampParked
    /\ QueryParked
    /\ ShutdownParked
    /\ DriverParked
    /\ ChannelsParked
    /\ CompareParked
    /\ dummy_task = [pc |-> "none"]
    /\ \E a \in Amplitudes :
          vtx = [backend |-> backend, initial_current |-> a, vertices |-> <<>>]

\* The vertices of the hardware task's _demagnetization_procedure.
hw_vertices ==
    /\ vtx.backend = "hardware"
    /\ vtx.vertices = <<>>
    /\ vtx' = [vtx EXCEPT !.vertices =
                 [i \in 1..NumVertices |-> DemagVertex(vtx.initial_current, i)]]
    /\ UNCHANGED dummy_task

\* The vertices of the dummy task's _demagnetization_procedure.
dummy_vertices ==
    /\ vtx.backend = "dummy"
    /\ vtx.vertices = <<>>
    /\ vtx' = [vtx EXCEPT !.vertices =
                 [i \in 1..(Len(factors) + 1) |-> DemagVertex(vtx.initial_current, i)]]
    /\ UNCHANGED dummy_task

VerticesOnly == UNCHANGED <<backendVars, rampVars, queryVars, shutdownVars, driverVars, channelVars, compareVars>>

VerticesNext ==
    \/ hw_vertices /\ VerticesOnly
    \/ dummy_vertices /\ VerticesOnly

SpecVertices == VerticesInit /\ [][VerticesNext]_vars

\* C18: for a nonzero initial current A0 the vertex sequence of either
\* Ramp Task has nine vertices of magnitude |A0| * factors[i] followed by a
\* final 0; the magnitudes never increase along the sequence and
\* consecutive nonzero vertices have opposite signs.
C18_VertexSequence ==
    (vtx.vertices # <<>> /\ vtx.initial_current # 0)
        => LET v == vtx.vertices
               n == Len(factors)
           IN  /\ Len(v) = n + 1
               /\ n = 9
               /\ v[n + 1] = 0
               /\ \A i \in 1..n : Abs(v[i]) = Abs(vtx.initial_current) * factors[i]
               /\ \A i \in 1..n : Abs(v[i + 1]) <= Abs(v[i])
               /\ \A i \in 1..n :
                     (v[i] # 0 /\ v[i + 1] # 0) => (v[i] > 0 <=> v[i + 1] < 0)

C18_Witness ==
    /\ vtx.backend = "dummy"
    /\ vtx.initial_current = 3000
    /\ Len(vtx.vertices) = 10
    /\ vtx.vertices[1] = -(3000 * 8694)
    /\ vtx.vertices[2] = 3000 * 4966
    /\ vtx.vertices[10] = 0

(***************************************************************************)
(* CurrentRampingThread of the dummy backend, in numbers.  actual is       *)
(* _target_array[_channel], the stored current of the channel, in mA.      *)
(* The floating-point quotients and products of the code are rounded to    *)
(* the nearest unit here, so that n increments of (target - actual) / n    *)
(* need not add up to target - actual exactly.                             *)
(***************************************************************************)
ramp_num_steps == 5
DummyActuals == {-2998, 0, 3, 1500}
DummyTargets == {-3001, 0, 2, 1499}

\* x / n, rounded to the nearest unit.
RoundDiv(x, n) ==
    IF x >= 0 THEN ((2 * x) + n) \div (2 * n) ELSE -(((2 * (-x)) + n) \div (2 * n))

\* The largest distance n rounded increments can leave to the target.
RampRounding == ramp_num_steps \div 2

\* vertices[i - 1] of the dummy task, in mA.
dummy_vertex_value(a, i) == RoundDiv(DemagVertex(a, i), FactorScale)

\* step_size = (goal - _target_array[_channel]) / _number_steps
step_size(goal, actual) == RoundDiv(goal - actual, ramp_num_steps)

DummyInit ==
    /\ backend = "dummy"
    /\ BackendConstructed
    /\ RampParked
    /\ QueryParked
    /\ ShutdownParked
    /\ DriverParked
    /\ ChannelsParked
    /\ CompareParked
    /\ vtx = [backend |-> "none", initial_current |-> 0, vertices |-> <<>>]
    /\ \E a \in DummyActuals, target \in DummyTargets, flag \in BOOLEAN :
          dummy_task = [pc |-> "run", actual |-> a, target_value |-> target,
                        demagnetization_flag |-> flag, demagnetization_passed |-> FALSE,
                        stop_event |-> FALSE, amplitude |-> 0, vertex |-> 0,
                        step_size |-> 0, k |-> 0,
                        stop_at |-> "none", updates_after_stop |-> 0]

\* stop()
dummy_stop ==
    /\ dummy_task.pc \notin {"none", "done"}
    /\ ~dummy_task.stop_event
    /\ dummy_task' = [dummy_task EXCEPT !.stop_event = TRUE,
                                        !.stop_at = dummy_task.pc]
    /\ UNCHANGED vtx

\* run(): the demagnetization test.  Without the procedure
\* _demagnetization_passed is set at once.
dummy_run ==
    /\ dummy_task.pc = "run"
    /\ dummy_task' =
          IF dummy_task.demagnetization_flag /\ dummy_task.actual # 0
          THEN [dummy_task EXCEPT !.pc = "vertices", !.vertex = 1,
                                  !.amplitude = dummy_task.actual]
          ELSE [dummy_task EXCEPT !.pc = "ramp", !.demagnetization_passed = TRUE]
    /\ UNCHANGED vtx

\* _demagnetization_procedure: the head of the vertex loop.  The loop runs
\* over all vertices, stopped or not; run() sets _demagnetization_passed
\* after it.
dummy_demagnetization_vertex ==
    /\ dummy_task.pc = "vertices"
    /\ dummy_task' =
          IF dummy_task.vertex > Len(factors) + 1
          THEN [dummy_task EXCEPT !.pc = "ramp", !.vertex = 0, !.step_size = 0,
                                  !.demagnetization_passed = TRUE]
          ELSE [dummy_task EXCEPT
                   !.pc = "vertexLoop", !.k = 0,
                   !.step_size = step_size(
                       dummy_vertex_value(dummy_task.amplitude, dummy_task.vertex),
                       dummy_task.actual)]
    /\ UNCHANGED vtx

\* The update of a loop pass, counted when stop() came before it:
\*   self._target_array[self._channel] += step_size
AfterUpdate(t, loop) ==
    [t EXCEPT !.actual = @ + t.step_size, !.k = @ + 1, !.pc = loop,
              !.updates_after_stop = IF t.stop_event THEN @ + 1 ELSE @]

\* Variant: the inner loop does not test the stop event.
dummy_demagnetization_step_unchecked ==
    /\ dummy_task.pc = "vertexLoop"
    /\ dummy_task' =
          IF dummy_task.k = ramp_num_steps
          THEN [dummy_task EXCEPT !.pc = "vertices", !.vertex = @ + 1, !.k = 0]
          ELSE [dummy_task EXCEPT !.pc = "vertexUpdate"]
    /\ UNCHANGED vtx

\* The head of a pass of the inner loop of _demagnetization_procedure: the
\* end of the range, or the test of the stop event.
dummy_demagnetization_step ==
    /\ dummy_task.pc = "vertexLoop"
    /\ dummy_task' =
          IF dummy_task.k = ramp_num_steps \/ dummy_task.stop_event
          THEN [dummy_task EXCEPT !.pc = "vertices", !.vertex = @ + 1, !.k = 0]
          ELSE [dummy_task EXCEPT !.pc = "vertexUpdate"]
    /\ UNCHANGED vtx

\* The rest of the pass: the update, the emission and the sleep.
dummy_demagnetization_update ==
    /\ dummy_task.pc = "vertexUpdate"
    /\ dummy_task' = AfterUpdate(dummy_task, "vertexLoop")
    /\ UNCHANGED vtx

\* Variant: the step size is taken from rest, not from the stored current.
dummy_ramp_from_rest ==
    /\ dummy_task.pc = "ramp"
    /\ dummy_task' = [dummy_task EXCEPT
                         !.pc = "rampLoop", !.k = 0,
                         !.step_size = step_size(dummy_task.target_value, 0)]
    /\ UNCHANGED vtx

\* run(): the step size of the ramp to the target.
dummy_ramp ==
    /\ dummy_task.pc = "ramp"
    /\ dummy_task' = [dummy_task EXCEPT
                         !.pc = "rampLoop", !.k = 0,
                         !.step_size = step_size(dummy_task.target_value, dummy_task.actual)]
    /\ UNCHANGED vtx

\* The head of a pass of the loop of run(): the end of the range, or the
\* test of the stop event.
dummy_ramp_step ==
    /\ dummy_task.pc = "rampLoop"
    /\ dummy_task' =
          IF dummy_task.k = ramp_num_steps \/ dummy_task.stop_event
          THEN [dummy_task EXCEPT !.pc = "done"]
          ELSE [dummy_task EXCEPT !.pc = "rampUpdate"]
    /\ UNCHANGED vtx

\* The rest of the pass: the update, the emission and the sleep.
dummy_ramp_update ==
    /\ dummy_task.pc = "rampUpdate"
    /\ dummy_task' = AfterUpdate(dummy_task, "rampLoop")
    /\ UNCHANGED vtx

DummyOnly == UNCHANGED <<backendVars, rampVars, queryVars, shutdownVars, driverVars, channelVars, compareVars>>

DummyNext ==
    \/ dummy_stop /\ DummyOnly
    \/ dummy_run /\ DummyOnly
    \/ dummy_demagnetization_vertex /\ DummyOnly
    \/ dummy_demagnetization_step /\ DummyOnly
    \/ dummy_demagnetization_update /\ DummyOnly
    \/ dummy_ramp /\ DummyOnly
    \/ dummy_ramp_step /\ DummyOnly
    \/ dummy_ramp_update /\ DummyOnly

SpecDummy == DummyInit /\ [][DummyNext]_vars

\* C20: when a Ramp Task of the dummy backend has returned without having
\* been stopped, it has added number_steps equal increments and the stored
\* current of its channel is the target up to the rounding of those
\* increments, with or without a demagnetization before the ramp.
C20_DummyReachesTarget ==
    (dummy_task.pc = "done" /\ ~dummy_task.stop_event)
        => /\ dummy_task.k = ramp_num_steps
           /\ Abs(dummy_task.actual - dummy_task.target_value) <= RampRounding
           /\ dummy_task.demagnetization_passed

C20_Witness ==
    /\ dummy_task.pc = "done"
    /\ ~dummy_task.stop_event
    /\ dummy_task.amplitude = 1500
    /\ dummy_task.target_value = -3001
    /\ dummy_task.k = ramp_num_steps
    /\ Abs(dummy_task.actual - dummy_task.target_value) <= RampRounding

\* C36: after stop() a Ramp Task of the dummy backend applies at most one
\* further update to the stored current of its channel, the one of the
\* pass in progress, in the demagnetization loop as in the final loop.
C36_AtMostOneUpdateAfterStop ==
    dummy_task.updates_after_stop <= 1

\* stop() found the task between the test and the update of a pass of the
\* demagnetization loop; the task applied that update and has returned.
C36_Witness ==
    /\ dummy_task.pc = "done"
    /\ dummy_task.stop_at = "vertexUpdate"
    /\ dummy_task.updates_after_stop = 1
    /\ dummy_task.vertex = 0

(***************************************************************************)
(* The Ramp Tasks of one dispatch, side by side.  The hardware dispatch is *)
(* taken after its emission on self.frontend: task i is constructed with   *)
(* power_supplies[i], whose _channel is i; the dummy task i is constructed *)
(* with the whole array of stored currents and the index i.  Every access  *)
(* to a driver or to an array entry is logged with the task that made it,  *)
(* and every emitted pair with the driver or entry its value came from.    *)
(***************************************************************************)
ChannelSteps == 2
ChannelValues == {0, 1500}

\* power_supplies[i] = ITPowerSupplyDriver(i, IPs[i], ...): the _channel of
\* the driver stored at index i.
power_supplies == [i \in Channels |-> [_channel |-> i]]

\* Variant: task i is handed the driver of the next channel.
new_ramping_thread_next_device(i, signal) ==
    [device |-> (i % NumChannels) + 1, channel |-> (i % NumChannels) + 1,
     signal |-> signal, step |-> 0]

\* ramping_threads[i] as the dispatch constructs it: the hardware task with
\* power_supplies[i], the dummy task with the index i.
new_ramping_thread(i, signal) ==
    [device |-> i, channel |-> i, signal |-> signal, step |-> 0]

ChannelsInit ==
    /\ backend \in {"dummy", "hardware"}
    /\ BackendConstructed
    /\ RampParked
    /\ QueryParked
    /\ ShutdownParked
    /\ DriverParked
    /\ DummyParked
    /\ ChannelsParked
    /\ CompareParked

\* _ramp_to_new_current_values: the three tasks are constructed and started.
ch_dispatch ==
    /\ ch_threads = <<>>
    /\ \E signal \in BOOLEAN :
          ch_threads' = [i \in Channels |-> new_ramping_thread(i, signal)]
    /\ UNCHANGED <<ch_log, ch_events>>

\* One ramping step of the hardware task i: set_voltage on self.device,
\* then, with a signal, emit(self.device.get_current(), self.device._channel).
ch_hardware_step(i) ==
    /\ backend = "hardware"
    /\ ch_threads # <<>>
    /\ ch_threads[i].step < ChannelSteps
    /\ LET t == ch_threads[i] IN
       /\ ch_threads' = [ch_threads EXCEPT ![i].step = @ + 1]
       /\ IF t.signal
          THEN /\ ch_log' = ch_log \cup {[task |-> i, entry |-> t.device, access |-> "write"],
                                         [task |-> i, entry |-> t.device, access |-> "read"]}
               /\ \E v \in ChannelValues :
                     ch_events' = ch_events \cup
                         {[value |-> v, producer |-> t.device,
                           channel |-> power_supplies[t.device]._channel]}
          ELSE /\ ch_log' = ch_log \cup {[task |-> i, entry |-> t.device, access |-> "write"]}
               /\ UNCHANGED ch_events

\* One ramping step of the dummy task i: _target_array[_channel] += step_size,
\* then, with a signal, emit(_target_array[_channel], _channel).
ch_dummy_step(i) ==
    /\ backend = "dummy"
    /\ ch_threads # <<>>
    /\ ch_threads[i].step < ChannelSteps
    /\ LET t == ch_threads[i] IN
       /\ ch_threads' = [ch_threads EXCEPT ![i].step = @ + 1]
       /\ ch_log' = ch_log \cup {[task |-> i, entry |-> t.channel, access |-> "write"],
                                 [task |-> i, entry |-> t.channel, access |-> "read"]}
       /\ IF t.signal
          THEN \E v \in ChannelValues :
                  ch_events' = ch_events \cup
                      {[value |-> v, producer |-> t.channel, channel |-> t.channel]}
          ELSE UNCHANGED ch_events

ChannelsOnly ==
    UNCHANGED <<backendVars, rampVars, queryVars, shutdownVars, driverVars, dummyVars,
                compareVars>>

ChannelsNext ==
    \/ ch_dispatch /\ ChannelsOnly
    \/ \E i \in Channels : ch_hardware_step(i) /\ ChannelsOnly
    \/ \E i \in Channels : ch_dummy_step(i) /\ ChannelsOnly

SpecChannels == ChannelsInit /\ [][ChannelsNext]_vars

\* C21: with the Ramp Tasks of the channels running side by side, every
\* emitted pair names the channel whose driver (or array entry) its value
\* came from, and every task has read and written only the driver or the
\* entry of the channel it was dispatched for.
C21_ChannelAttribution ==
    /\ \A e \in ch_events : e.channel = e.producer
    /\ \A a \in ch_log : a.entry = a.task

C21_Witness ==
    /\ backend = "hardware"
    /\ ch_threads # <<>>
    /\ \A i \in Channels : ch_threads[i].step = 1
    /\ \A i \in Channels : \E e \in ch_events : e.producer = i
    /\ \A i \in Channels : [task |-> i, entry |-> i, access |-> "read"] \in ch_log

(***************************************************************************)
(* The two backends side by side.  Every public call is made on a          *)
(* DummyMagnetBackend and on an ElectroMagnetBackend alike; each side      *)
(* records its magnet status and the on_task_change and                    *)
(* on_field_status_change emissions it makes.  The Observers a side has    *)
(* started deliver their signals between the calls.                        *)
(***************************************************************************)
\* Number of public calls in a run.
MaxCalls == 3

\* Class of the current a Ramp Task finds on its channel when it starts.
StartClasses == {"zero", "nonzero"}

NewSide == [magnet_state |-> "OFF", setpoint |-> ZeroVector, flag |-> FALSE,
            events |-> <<>>, observers |-> <<>>, raised |-> FALSE]

PairInit ==
    /\ backend = "dummy"
    /\ BackendConstructed
    /\ RampParked
    /\ QueryParked
    /\ ShutdownParked
    /\ DriverParked
    /\ DummyParked
    /\ ChannelsParked
    /\ fld = [calls |-> 0]
    /\ pair = [calls |-> 0, d |-> NewSide, h |-> NewSide, tasks |-> <<>>]

Emit(side, kind, value) == [side EXCEPT !.events = Append(@, <<kind, value>>)]

\* DummyMagnetBackend._ramp_to_new_current_values: the herald, the tasks and
\* the Observer.
d_ramp_to_new_current_values(side, running_task) ==
    [Emit(side, "task", IF side.flag THEN "DEMAGNETIZING" ELSE running_task)
        EXCEPT !.observers = Append(@, [tag |-> running_task, check |-> side.flag]),
               !.raised = FALSE]

\* ElectroMagnetBackend._ramp_to_new_current_values: the herald is emitted on
\* self.frontend and raises AttributeError; the caller's remaining
\* statements are not executed.
h_ramp_to_new_current_values(side, running_task) == [side EXCEPT !.raised = TRUE]

d_enable_field(side) ==
    d_ramp_to_new_current_values(
        [Emit(side, "status", "ON") EXCEPT !.magnet_state = "ON"], "ENABLING")

h_enable_field(side) == h_ramp_to_new_current_values(side, "ENABLING")

d_disable_field(side) ==
    d_ramp_to_new_current_values(
        Emit([side EXCEPT !.magnet_state = "OFF"], "status", "OFF"), "DISABLING")

h_disable_field(side) == h_ramp_to_new_current_values(side, "DISABLING")

d_set_currents(side, values) ==
    LET stored == [side EXCEPT !.setpoint = values, !.raised = FALSE]
    IN  IF side.magnet_state = "ON"
        THEN d_ramp_to_new_current_values(Emit(stored, "task", "SWITCHING"), "SWITCHING")
        ELSE stored

h_set_currents(side, values) ==
    LET stored == [side EXCEPT !.setpoint = values, !.raised = FALSE]
    IN  IF side.magnet_state = "ON"
        THEN h_ramp_to_new_current_values(Emit(stored, "task", "SWITCHING"), "SWITCHING")
        ELSE stored

\* set_demagnetization_flag, the same statements in both classes.
side_set_demagnetization_flag(side, flag) == [side EXCEPT !.flag = flag, !.raised = FALSE]

\* ObserverThread.run to its end and on_task_finished_action for its signals.
side_observer_finished(side, i) ==
    LET ob == side.observers[i]
        after_demag == IF ob.check THEN Emit(side, "task", "ENABLING") ELSE side
        after_done == IF ob.tag = "DISABLING"
                      THEN Emit(Emit(after_demag, "status", "OFF"), "task", "IDLE")
                      ELSE Emit(after_demag, "task", "IDLE")
    IN  [after_done EXCEPT !.observers =
            [j \in 1..(Len(side.observers) - 1) |->
                IF j < i THEN side.observers[j] ELSE side.observers[j + 1]]]

\* demagnetization_completed() of a dummy Ramp Task that has run to its end:
\* run() sets _demagnetization_passed after the optional procedure.
d_demagnetization_completed(flag, start) == TRUE

\* demagnetization_completed() of a hardware Ramp Task that has run to its
\* end: only _demagnetization_procedure sets _demagnetization_passed.
h_demagnetization_completed(flag, start) == flag /\ start # "zero"

pair_enable_field ==
    /\ pair.calls < MaxCalls
    /\ pair' = [pair EXCEPT !.calls = @ + 1, !.d = d_enable_field(@),
                            !.h = h_enable_field(@)]

pair_disable_field ==
    /\ pair.calls < MaxCalls
    /\ pair' = [pair EXCEPT !.calls = @ + 1, !.d = d_disable_field(@),
                            !.h = h_disable_field(@)]

pair_set_currents ==
    /\ pair.calls < MaxCalls
    /\ \E values \in SetpointInputs :
          pair' = [pair EXCEPT !.calls = @ + 1, !.d = d_set_currents(@, values),
                                  !.h = h_set_currents(@, values)]

pair_set_demagnetization_flag ==
    /\ pair.calls < MaxCalls
    /\ \E flag \in BOOLEAN :
          pair' = [pair EXCEPT !.calls = @ + 1,
                                  !.d = side_set_demagnetization_flag(@, flag),
                                  !.h = side_set_demagnetization_flag(@, flag)]

\* An Observer of the dummy side finishes.  The hardware side has none: its
\* dispatch raises before it constructs one.
pair_d_observer_finished ==
    \E i \in DOMAIN pair.d.observers :
        pair' = [pair EXCEPT !.d = side_observer_finished(@, i)]

\* One Ramp Task of each backend, constructed with the same flag on a
\* channel with the same current, runs to its end without being stopped.
pair_tasks_run ==
    /\ pair.tasks = <<>>
    /\ \E flag \in BOOLEAN, start \in StartClasses :
          pair' = [pair EXCEPT !.tasks =
                      <<[flag |-> flag, start |-> start,
                         d_passed |-> d_demagnetization_completed(flag, start),
                         h_passed |-> h_demagnetization_completed(flag, start)]>>]

PairOnly == UNCHANGED <<backendVars, rampVars, queryVars, shutdownVars, driverVars,
                        dummyVars, channelVars, fld>>

PairNext ==
    \/ pair_enable_field /\ PairOnly
    \/ pair_disable_field /\ PairOnly
    \/ pair_set_currents /\ PairOnly
    \/ pair_set_demagnetization_flag /\ PairOnly
    \/ pair_d_observer_finished /\ PairOnly
    \/ pair_tasks_run /\ PairOnly

SpecPair == PairInit /\ [][PairNext]_vars

\* C37 as stated: given the same calls the two backends have the same magnet
\* status after each call and have emitted the same sequence of task-change
\* and field-status events, and a Ramp Task of either backend that has run
\* under the same conditions answers demagnetization_completed() alike.
C37_BackendsAgree ==
    /\ pair.d.magnet_state = pair.h.magnet_state
    /\ pair.d.events = pair.h.events
    /\ \A i \in DOMAIN pair.tasks : pair.tasks[i].d_passed = pair.tasks[i].h_passed

(***************************************************************************)
(* set_target_field of MagnetBackendBase on a DummyMagnetBackend.  The     *)
(* fitted model that _compute_coil_currents loads is data: the currents it *)
(* predicts for a field are an input.  Currents in mA.                     *)
(***************************************************************************)
\* maxCurrent of the backend, 5.05 A.
MaxCurrent == 5050

\* The fields a caller asks for, by name, and the currents the fitted model
\* predicts for them: none, moderate ones of both signs, one channel above
\* +maxCurrent, one channel below -maxCurrent, one channel at maxCurrent.
TargetFields == {"B0", "B1", "B2", "B3", "B4"}
required_currents(field) ==
    IF field = "B0" THEN <<0, 0, 0>>
    ELSE IF field = "B1" THEN <<1500, 0, -1000>>
    ELSE IF field = "B2" THEN <<6000, 0, 0>>
    ELSE IF field = "B3" THEN <<0, -6000, 0>>
    ELSE <<-2000, 3000, 5050>>

FieldInit ==
    /\ backend = "dummy"
    /\ BackendConstructed
    /\ RampParked
    /\ QueryParked
    /\ ShutdownParked
    /\ DriverParked
    /\ DummyParked
    /\ ChannelsParked
    /\ pair = [calls |-> 0]
    /\ fld = [calls |-> 0, setpoint_fields |-> "B0", setpoint_currents |-> <<0, 0, 0>>,
              magnet_state |-> "OFF", dispatches |-> 0, setpoint_events |-> 0,
              last |-> <<>>]

\* np.any(required_currents > self.get_max_current())
any_above_max(required) == \E c \in DOMAIN required : required[c] > MaxCurrent

\* set_currents as set_target_field calls it: the setpoint is stored and,
\* with the field on, new Ramp Tasks are dispatched.
fld_set_currents(f, values) ==
    [f EXCEPT !.setpoint_currents = values,
              !.dispatches = IF f.magnet_state = "ON" THEN @ + 1 ELSE @]

fld_set_target_field ==
    /\ fld.calls < MaxCalls
    /\ \E field \in TargetFields :
          LET required == required_currents(field)
              counted == [fld EXCEPT !.calls = @ + 1]
              accepted == [fld_set_currents(counted, required) EXCEPT
                              !.setpoint_fields = field,
                              !.setpoint_events = @ + 1]
              frame(f) == <<f.setpoint_fields, f.setpoint_currents, f.dispatches,
                            f.setpoint_events>>
          IN  IF fld.setpoint_fields = field
              THEN fld' = [counted EXCEPT !.last = <<>>]
              ELSE IF any_above_max(required)
              THEN fld' = [counted EXCEPT !.last =
                              <<[required |-> required, raised |-> TRUE,
                                 changed |-> FALSE]>>]
              ELSE fld' = [accepted EXCEPT !.last =
                              <<[required |-> required, raised |-> FALSE,
                                 changed |-> frame(accepted) # frame(fld)]>>]

fld_enable_field ==
    /\ fld.calls < MaxCalls
    /\ fld' = [fld EXCEPT !.calls = @ + 1, !.magnet_state = "ON",
                          !.dispatches = @ + 1, !.last = <<>>]

fld_disable_field ==
    /\ fld.calls < MaxCalls
    /\ fld' = [fld EXCEPT !.calls = @ + 1, !.magnet_state = "OFF",
                          !.dispatches = @ + 1, !.last = <<>>]

FieldOnly == UNCHANGED <<backendVars, rampVars, queryVars, shutdownVars, driverVars,
                         dummyVars, channelVars, pair>>

FieldNext ==
    \/ fld_set_target_field /\ FieldOnly
    \/ fld_enable_field /\ FieldOnly
    \/ fld_disable_field /\ FieldOnly

SpecField == FieldInit /\ [][FieldNext]_vars

\* C39 as stated: when the current required of any channel exceeds the
\* maximum current in magnitude, set_target_field raises
\* CurrentLimitExceeded and leaves the field setpoint, the current setpoint
\* and the Ramp Tasks as they were, and emits no setpoint-change event.
C39_LimitExceededEitherPolarity ==
    \A i \in DOMAIN fld.last :
        (\E c \in Channels : Abs(fld.last[i].required[c]) > MaxCurrent)
            => (fld.last[i].raised /\ ~fld.last[i].changed)

====
